---- MODULE Spec2Model ----
(***************************************************************************)
(* A model of giterator: the streaming `git log` parser                    *)
(* (Giterator.iter_commits with _parse_changes / _parse_summary and the    *)
(* scoped _GitProcess), the branch reconstructor                           *)
(* (Giterator.iter_commits_consecutive) and the lazily decoded File.       *)
(*                                                                         *)
(* Text is modelled as a sequence of tokens (a token is one character or   *)
(* one word that no operation of the code splits): a line is a tuple of    *)
(* strings, and so are a path, a hash list and a message.                  *)
(***************************************************************************)
EXTENDS Integers, Sequences, FiniteSets, TLC

VARIABLES
    \* ---- Giterator.iter_commits (one generator object) ----
    frames,        \* the commit frames git writes (the input; never changes)
    stdout,        \* process.process.stdout: the raw lines not yet read
    offset,        \* argument offset
    count,         \* argument count
    pc,            \* position of the generator
    commit,        \* local `commit` (a dict)
    current_line,  \* local `current_line`
    cur_count,     \* local `cur_count`
    yielded,       \* the Commits handed to the consumer so far
    error,         \* the exception that ended the generator, if any
    process,       \* the _GitProcess: how often started / killed / awaited
    lastline,      \* the last stripped line the loop body has digested
    \* ---- Giterator.iter_commits_consecutive ----
    input,         \* the commits iter_commits delivers (never changes)
    branch_length, \* argument branch_length
    branch_age,    \* argument branch_age
    pos,           \* number of input commits consumed by the for loop
    branches,      \* local `branches`
    emitted,       \* what has been yielded, each commit with its run
    opened,        \* number of branches opened so far (names the runs)
    evicted,       \* the branches flushed by the eviction test (their run, last hash, size, time)
    added,         \* local `added`, as the last loop body left it
    bpc,           \* position of the generator: "loop" or "done"
    \* ---- File ----
    archive,       \* the entries of the tar image (never changes)
    buffer,        \* the shared BytesIO: its bytes and its read position
    entry,         \* number of archive entries iter_files has gone through
    files,         \* the File objects: tarinfo and the cached _data
    heap,          \* number of bytes objects allocated so far
    reads,         \* per File, the number of times content was decoded
    results,       \* per File, the objects returned by its content accesses
    \* ---- Giterator.iter_files (one generator object) ----
    filenames,      \* argument filenames (None, or a list of paths)
    error_response, \* what the git process wrote to stderr
    fpc,            \* position of the generator
    ferror,         \* the exception that ended the generator, if any
    \* ---- Giterator.num_commits ----
    repo,             \* the commits of the repository, oldest first
    self_num_commits, \* attribute _num_commits of the Giterator
    ncalls,           \* number of num_commits calls made so far
    call,             \* the last num_commits call: arguments, time, return value
    \* ---- Giterator.iter_commit_hashes (one generator object) ----
    hlines,        \* the lines git rev-list writes (the input; never changes)
    hstdout,       \* the lines not yet read
    hoffset,       \* argument offset
    hcount,        \* argument count
    hall,          \* argument all
    hpc,           \* position of the generator
    hcommit,       \* local `commit` (a dict)
    hcur_count,    \* local `cur_count`
    hyielded,      \* the dicts handed to the consumer so far
    herror,        \* the exception that ended the generator, if any
    \* ---- File.text ----
    tcontent,      \* the content of the File (bytes)
    tncalls,       \* number of text calls made so far
    tcall          \* the last text call: arguments, what the decoder got, outcome

parseVars  == <<frames, stdout, offset, count, pc, commit, current_line,
                cur_count, yielded, error, process, lastline>>
branchVars == <<input, branch_length, branch_age, pos, branches, emitted,
                opened, evicted, added, bpc>>
fileVars   == <<archive, buffer, entry, files, heap, reads, results,
                filenames, error_response, fpc, ferror>>
countVars  == <<repo, self_num_commits, ncalls, call>>
hashVars   == <<hlines, hstdout, hoffset, hcount, hall, hpc, hcommit,
                hcur_count, hyielded, herror>>
textVars   == <<tcontent, tncalls, tcall>>
vars       == <<parseVars, branchVars, fileVars, countVars, hashVars, textVars>>

(***************************************************************************)
(* Tokens and the string operations the parser applies to a line.          *)
(***************************************************************************)
NL == "\n"
WS == {" ", "\t", NL}
BadByte == "\\xff"           \* a byte that is not valid UTF-8

RECURSIVE rstrip(_)
rstrip(s) ==
    IF s # <<>> /\ s[Len(s)] \in WS THEN rstrip(SubSeq(s, 1, Len(s) - 1)) ELSE s

RECURSIVE lstrip(_)
lstrip(s) ==
    IF s # <<>> /\ s[1] \in WS THEN lstrip(Tail(s)) ELSE s

strip(s) == lstrip(rstrip(s))

\* helper.decode(line, ignore_errors=True): undecodable bytes are dropped
RECURSIVE decode(_)
decode(s) ==
    IF s = <<>> THEN <<>>
    ELSE IF Head(s) = BadByte THEN decode(Tail(s))
    ELSE <<Head(s)>> \o decode(Tail(s))

\* str.split(): the words between runs of whitespace
RECURSIVE split(_)
split(s) ==
    IF s = <<>> THEN <<>>
    ELSE IF Head(s) \in WS THEN split(Tail(s))
    ELSE <<Head(s)>> \o split(Tail(s))

\* str.split(", "): the words between the separators
RECURSIVE split_comma(_)
split_comma(s) ==
    IF s = <<>> THEN <<>>
    ELSE IF Head(s) = ", " THEN split_comma(Tail(s))
    ELSE <<Head(s)>> \o split_comma(Tail(s))

\* helper.parse_datetime: the ISO text becomes a structured timestamp
parse_datetime(s) == <<"datetime">> \o s

DELIMITER1 == <<"$$$1-GiTeRaToR-dAtA-dElImItEr-$$$">>
DELIMITER2 == <<NL, "$$$2-GiTeRaToR-dAtA-dElImItEr-$$$">>

\* (format token, field name, transform)
LOG_INFOS == <<
    <<"%H",  "hash",            "str">>,
    <<"%T",  "tree_hash",       "str">>,
    <<"%P",  "parent_hash",     "split">>,
    <<"%an", "author",          "str">>,
    <<"%ae", "author_email",    "str">>,
    <<"%aI", "author_date",     "parse_datetime">>,
    <<"%an", "committer",       "str">>,
    <<"%ae", "committer_email", "str">>,
    <<"%aI", "committer_date",  "parse_datetime">>,
    <<"%D",  "ref_names",       "split_comma">>,
    <<"%e",  "encoding",        "str">> >>

\* log_info[2](value), or the value itself for a two-element entry
Transform(log_info, value) ==
    CASE log_info[3] = "split"          -> IF strip(value) # <<>> THEN split(value) ELSE <<>>
      [] log_info[3] = "split_comma"    -> IF strip(value) # <<>> THEN split_comma(value) ELSE <<>>
      [] log_info[3] = "parse_datetime" -> parse_datetime(value)
      [] OTHER                          -> value

(***************************************************************************)
(* Dicts: a dict is a function from its keys.                               *)
(***************************************************************************)
EmptyDict == [k \in {} |-> <<>>]

Put(d, k, v) == [x \in (DOMAIN d) \cup {k} |-> IF x = k THEN v ELSE d[x]]

\* dict.update(other)
Update(d, other) ==
    [x \in (DOMAIN d) \cup (DOMAIN other) |-> IF x \in DOMAIN other THEN other[x] ELSE d[x]]

Max(a, b) == IF a >= b THEN a ELSE b
Min(a, b) == IF a <= b THEN a ELSE b

\* the first position of token t in s, 0 when there is none
IndexOf(s, t) ==
    IF \E i \in 1..Len(s) : s[i] = t
    THEN CHOOSE i \in 1..Len(s) : s[i] = t /\ \A j \in 1..(i - 1) : s[j] # t
    ELSE 0

(***************************************************************************)
(* The change reconciler.                                                  *)
(***************************************************************************)
Digits  == {"0", "1", "2", "7"}
Modes   == {"100644", "100755", "120000"}
Words   == {"create", "delete", "rename", "mode", "change"}

\* _RE_CHANGE_NUMSTATS = ^(-|\d+)\s(-|\d+)\s(.*)$
RE_CHANGE_NUMSTATS(line) ==
    /\ Len(line) >= 4
    /\ line[1] \in {"-"} \cup Digits
    /\ line[2] \in WS
    /\ line[3] \in {"-"} \cup Digits
    /\ line[4] \in WS

\* _RE_CHANGE_SUMMARY = ^([a-z]+) mode (\d\d\d\d\d\d) (.+)
RE_CHANGE_SUMMARY(line) ==
    /\ Len(line) >= 7
    /\ line[1] \in Words
    /\ line[2] = " "
    /\ line[3] = "mode"
    /\ line[4] = " "
    /\ line[5] \in Modes
    /\ line[6] = " "

\* helper.get_git_renaming(name): <<old, new>> for "old => new" and for
\* "prefix{old => new}suffix", <<>> (None) for a plain path
get_git_renaming(name) ==
    LET a == IndexOf(name, "=>")
        l == IndexOf(name, "{")
        r == IndexOf(name, "}")
    IN  IF a = 0 THEN <<>>
        ELSE IF l # 0 /\ l < a /\ a < r
        THEN << SubSeq(name, 1, l - 1) \o rstrip(SubSeq(name, l + 1, a - 1))
                    \o SubSeq(name, r + 1, Len(name)),
                SubSeq(name, 1, l - 1) \o lstrip(SubSeq(name, a + 1, r - 1))
                    \o SubSeq(name, r + 1, Len(name)) >>
        ELSE << rstrip(SubSeq(name, 1, a - 1)), lstrip(SubSeq(name, a + 1, Len(name))) >>

NoError == [kind |-> "none", text |-> <<>>, line |-> <<>>, commit |-> EmptyDict]

\* (mutant) the rename notation of the path is not resolved
parse_changes_NoRename(c, line) ==
    IF ~RE_CHANGE_NUMSTATS(line)
    THEN [commit |-> c, ret |-> "False"]
    ELSE LET c1 == IF "changes" \notin DOMAIN c THEN Put(c, "changes", <<>>) ELSE c
             ch == [name |-> SubSeq(line, 5, Len(line)), type |-> "change",
                    additions |-> line[1], deletions |-> line[3]]
         IN  [commit |-> Put(c1, "changes", Append(c1["changes"], ch)), ret |-> "None"]

\* Giterator._parse_changes: the commit afterwards and the value returned
\* ("None" when the function falls off its end)
parse_changes(c, line) ==
    IF ~RE_CHANGE_NUMSTATS(line)
    THEN [commit |-> c, ret |-> "False"]
    ELSE LET c1     == IF "changes" \notin DOMAIN c THEN Put(c, "changes", <<>>) ELSE c
             name   == SubSeq(line, 5, Len(line))
             ch     == [name |-> name, type |-> "change",
                        additions |-> line[1], deletions |-> line[3]]
             rename == get_git_renaming(name)
             ch2    == IF rename # <<>>
                       THEN Update(ch, [name |-> rename[2], old_name |-> rename[1],
                                        type |-> "rename"])
                       ELSE ch
         IN  [commit |-> Put(c1, "changes", Append(c1["changes"], ch2)), ret |-> "None"]

\* (mutant) the summary line enriches the Change recorded last, whatever its name
parse_summary_Last(c, line) ==
    IF Len(line) >= 2 /\ line[1] = "rename" /\ line[2] = " "
    THEN [commit |-> c, ret |-> "True", raised |-> NoError]
    ELSE IF ~RE_CHANGE_SUMMARY(strip(line))
    THEN [commit |-> c, ret |-> "False", raised |-> NoError]
    ELSE LET l == strip(line)
         IN  IF "changes" \notin DOMAIN c
             THEN [commit |-> c, ret |-> "None",
                   raised |-> [kind |-> "KeyError", text |-> <<"changes">>,
                               line |-> <<>>, commit |-> EmptyDict]]
             ELSE [commit |-> Put(c, "changes",
                                  [c["changes"] EXCEPT ![Len(c["changes"])] =
                                      Update(@, [type |-> l[1], mode |-> l[5]])]),
                   ret |-> "True", raised |-> NoError]

\* Giterator._parse_summary: the commit afterwards, the value returned and
\* the exception raised
parse_summary(c, line) ==
    IF Len(line) >= 2 /\ line[1] = "rename" /\ line[2] = " "
    THEN [commit |-> c, ret |-> "True", raised |-> NoError]
    ELSE IF ~RE_CHANGE_SUMMARY(strip(line))
    THEN [commit |-> c, ret |-> "False", raised |-> NoError]
    ELSE LET l    == strip(line)
             type == l[1]
             mode == l[5]
             name == SubSeq(l, 7, Len(l))
         IN  IF "changes" \notin DOMAIN c
             THEN [commit |-> c, ret |-> "None",
                   raised |-> [kind |-> "KeyError", text |-> <<"changes">>,
                               line |-> <<>>, commit |-> EmptyDict]]
             ELSE IF \E i \in 1..Len(c["changes"]) : c["changes"][i]["name"] = name
             THEN LET i == CHOOSE i \in 1..Len(c["changes"]) :
                              /\ c["changes"][i]["name"] = name
                              /\ \A j \in 1..(i - 1) : c["changes"][j]["name"] # name
                  IN  [commit |-> Put(c, "changes",
                                      [c["changes"] EXCEPT ![i] =
                                          Update(@, [type |-> type, mode |-> mode])]),
                       ret |-> "True", raised |-> NoError]
             ELSE [commit |-> c, ret |-> "None",
                   raised |-> [kind |-> "AssertionError", text |-> name,
                               line |-> line, commit |-> c]]

(***************************************************************************)
(* What git writes: one frame per commit, in the --pretty format that      *)
(* iter_commits asks for.                                                  *)
(***************************************************************************)
MaxFrames      == 3     \* frames in a stream
MaxOffset      == 2     \* largest offset argument
MaxCount       == 2     \* largest count argument
MaxChangeLines == 3     \* lines in the change section of a single frame

HashTok == <<"h1", "h2", "h3", "h4", "h5">>

\* the n-th commit of the repository, in one of three shapes
RepoCommit(n, shape) ==
    [ hash        |-> <<HashTok[n]>>,
      tree        |-> <<"t", HashTok[n]>>,
      parents     |-> CASE shape = 1 -> <<>>
                        [] shape = 2 -> <<IF n > 1 THEN HashTok[n - 1] ELSE "h0">>
                        [] OTHER     -> <<IF n > 1 THEN HashTok[n - 1] ELSE "h0", " ", "hx">>,
      an          |-> <<"Ann", " ", "A">>,
      ae          |-> <<"ann@a">>,
      aI          |-> <<"2020-01-01T00:00:00+01:00">>,
      cn          |-> <<"Carl">>,
      ce          |-> <<"carl@c">>,
      cI          |-> <<"2021-02-02T00:00:00+00:00">>,
      refs        |-> CASE shape = 1 -> <<"HEAD -> main", ", ", "tag: v1">>
                        [] OTHER     -> <<>>,
      encoding    |-> <<>>,
      \* %B, line by line (git ends the body with a line break, so the
      \* last line before DELIMITER2 is blank)
      body        |-> CASE shape = 1 -> << <<"Message", " ", HashTok[n]>>, <<>> >>
                        [] shape = 2 -> << <<"subject", " ", BadByte>>, <<>>,
                                           <<" ", "body", HashTok[n], " ">>, <<>> >>
                        [] OTHER     -> << <<>> >>,
      \* the --numstat --summary section
      changes     |-> CASE shape = 1 -> << <<>>,
                                           <<"1", "\t", "0", "\t", "a.txt">>,
                                           <<"-", "\t", "-", "\t", "b.bin">>,
                                           <<" ", "create", " ", "mode", " ", "100644", " ", "a.txt">> >>
                        [] shape = 2 -> <<>>
                        [] OTHER     -> << <<"0", "\t", "0", "\t", "d/", "{", "x", " ", "=>", " ", "y", "}", "/f">>,
                                           <<" ", "rename", " ", "d/", "{", "x", " ", "=>", " ", "y",
                                             "}", "/f", " ", "(100%)">> >> ]

Shapes == {1, 2, 3}

\* what git prints for one format token
GitFormat(token, rc) ==
    CASE token = "%H"  -> rc.hash
      [] token = "%T"  -> rc.tree
      [] token = "%P"  -> rc.parents
      [] token = "%an" -> rc.an
      [] token = "%ae" -> rc.ae
      [] token = "%aI" -> rc.aI
      [] token = "%cn" -> rc.cn
      [] token = "%ce" -> rc.ce
      [] token = "%cI" -> rc.cI
      [] token = "%D"  -> rc.refs
      [] token = "%e"  -> rc.encoding

\* --pretty=DELIMITER1 %n <tokens joined by %n> %n %B DELIMITER2, then the
\* change section: the lines of one frame
Frame(rc, changes) ==
    [ meta    |-> [j \in 1..Len(LOG_INFOS) |-> GitFormat(LOG_INFOS[j][1], rc)],
      msg     |-> rc.body,
      changes |-> changes ]

RECURSIVE StreamOf(_)
StreamOf(fs) ==
    IF fs = <<>> THEN <<>>
    ELSE LET f == Head(fs)
         IN  <<DELIMITER1>> \o f.meta \o f.msg \o <<Tail(DELIMITER2)>> \o f.changes
                \o StreamOf(Tail(fs))

\* readline() returns each line with its line break
RawLines(lines) == [i \in 1..Len(lines) |-> lines[i] \o <<NL>>]

\* the lines a change section is made of
ChangeLines ==
    { <<"1", "\t", "0", "\t", "a.txt">>,
      <<"-", "\t", "-", "\t", "b.bin">>,
      <<"2", "\t", "7", "\t", "old.txt", " ", "=>", " ", "new.txt">>,
      <<" ", "create", " ", "mode", " ", "100644", " ", "a.txt">>,
      <<" ", "create", " ", "mode", " ", "120000", " ", "new.txt">>,
      <<" ", "rename", " ", "old.txt", " ", "=>", " ", "new.txt", " ", "(100%)">>,
      <<" ", "mode", " ", "change", " ", "100644", " ", "=>", " ", "100755", " ", "a.txt">> }

SeqsUpTo(S, n) == UNION { [1..k -> S] : k \in 0..n }

\* streams of several frames, each in one of the shapes
ShapedStreams ==
    { [i \in 1..Len(sh) |-> Frame(RepoCommit(i, sh[i]), RepoCommit(i, sh[i]).changes)] :
        sh \in SeqsUpTo(Shapes, MaxFrames) }

\* one frame with any change section
ChangeStreams ==
    { << Frame(RepoCommit(1, 2), ch) >> : ch \in SeqsUpTo(ChangeLines, MaxChangeLines) }

(***************************************************************************)
(* Line streams that do not follow the protocol: a chunk is a frame of     *)
(* which only the first `keep` lines after the delimiter line are written, *)
(* and the first chunk of a stream may begin with a line of other output   *)
(* in the place of DELIMITER1.                                             *)
(***************************************************************************)
MaxChunks == 2     \* chunks in a stream

StrayLine == <<"warning:", " ", "stray", " ", "output">>

\* the lines of a frame after its delimiter line
BodyLines(f) == f.meta \o f.msg \o <<Tail(DELIMITER2)>> \o f.changes

\* the number of lines up to and including DELIMITER2
HeadLen(f) == Len(f.meta) + Len(f.msg) + 1

\* where a frame is cut: before and after its first field, in and after its
\* fields, in and after its message, after DELIMITER2, in and after its
\* change section
KeepPoints(f) ==
    { 0, 1, 3, Len(f.meta), Len(f.meta) + 1, Len(f.meta) + Len(f.msg),
      HeadLen(f), HeadLen(f) + 2, Len(BodyLines(f)) }

Chunk(n, head, keep) ==
    LET f == Frame(RepoCommit(n, 1), RepoCommit(n, 1).changes)
    IN  [meta |-> f.meta, msg |-> f.msg, changes |-> f.changes,
         head |-> head, keep |-> keep]

ChunkLines(c) ==
    <<IF c.head = "delimiter" THEN DELIMITER1 ELSE StrayLine>>
        \o SubSeq(BodyLines(c), 1, c.keep)

RECURSIVE RawStreamOf(_)
RawStreamOf(cs) ==
    IF cs = <<>> THEN <<>> ELSE ChunkLines(Head(cs)) \o RawStreamOf(Tail(cs))

\* the chunks of a stream: the n-th is cut from the frame of the n-th commit
RECURSIVE ChunkStreams(_)
ChunkStreams(n) ==
    IF n = 0 THEN { <<>> }
    ELSE { Append(prev, Chunk(n, head, keep)) :
             prev \in { cs \in ChunkStreams(n - 1) : Len(cs) = n - 1 },
             head \in IF n = 1 THEN {"delimiter", "stray"} ELSE {"delimiter"},
             keep \in KeepPoints(Frame(RepoCommit(n, 1), RepoCommit(n, 1).changes)) }
         \cup ChunkStreams(n - 1)

(***************************************************************************)
(* Giterator.iter_commits: the generator, one loop iteration per step.     *)
(* pc: "created" (no element requested yet), "loop" (at the while test),   *)
(* "yield" (suspended at the yield inside the loop), "yield_last"          *)
(* (suspended at the yield after the loop), "done" (exhausted), "raised"   *)
(* (ended by an exception), "closed" (closed or dropped by the consumer).  *)
(***************************************************************************)
NewProcess == [started |-> 0, killed |-> 0, waited |-> 0]

\* _GitProcess.__enter__: subprocess.Popen
GitProcessEnter(p) == [p EXCEPT !.started = @ + 1]

\* _GitProcess.__exit__: process.kill(); process.wait()
GitProcessExit(p) == [p EXCEPT !.killed = @ + 1, !.waited = @ + 1]

\* Commit(self, **commit)
Commit(c) == c

\* the while test
LoopCond == count <= 0 \/ (cur_count - offset) < count

\* (mutant) the commit in flight at the end of the stream is not tested against the offset
LastCond_NoOffset == count <= 0 \/ (cur_count - offset) < count

\* the test of the yield after the loop
LastCond == cur_count >= offset /\ (count <= 0 \/ (cur_count - offset) < count)

Truthy(ret) == ret = "True"

ParseIdle ==
    /\ frames = <<>> /\ stdout = <<>> /\ offset = 0 /\ count = 0
    /\ pc = "idle" /\ commit = EmptyDict /\ current_line = 0 /\ cur_count = 0
    /\ yielded = <<>> /\ error = NoError /\ process = NewProcess /\ lastline = <<>>

ParseInit ==
    /\ \/ /\ frames \in ShapedStreams
          /\ offset \in 0..MaxOffset
          /\ count \in -1..MaxCount
       \/ /\ frames \in ChangeStreams
          /\ offset = 0
          /\ count = 0
    /\ stdout = RawLines(StreamOf(frames))
    /\ pc = "created"
    /\ commit = EmptyDict /\ current_line = 0 /\ cur_count = 0
    /\ yielded = <<>> /\ error = NoError /\ process = NewProcess /\ lastline = <<>>

\* a stream that may break the protocol, read in full
RawInit ==
    /\ frames \in ChunkStreams(MaxChunks)
    /\ offset = 0
    /\ count = 0
    /\ stdout = RawLines(RawStreamOf(frames))
    /\ pc = "created"
    /\ commit = EmptyDict /\ current_line = 0 /\ cur_count = 0
    /\ yielded = <<>> /\ error = NoError /\ process = NewProcess /\ lastline = <<>>

\* the first next(): the with statement starts the process, the locals are set
Start ==
    /\ pc = "created"
    /\ process' = GitProcessEnter(process)
    /\ commit' = EmptyDict
    /\ current_line' = 0
    /\ cur_count' = 0
    /\ pc' = "loop"
    /\ UNCHANGED <<frames, stdout, offset, count, yielded, error, lastline>>
    /\ UNCHANGED <<branchVars, fileVars, countVars, hashVars, textVars>>

\* the first next() when Popen raises: __enter__ fails, nothing was started
StartFails ==
    /\ pc = "created"
    /\ pc' = "raised"
    /\ error' = [NoError EXCEPT !.kind = "OSError"]
    /\ UNCHANGED <<frames, stdout, offset, count, commit, current_line, cur_count,
                   yielded, process, lastline>>
    /\ UNCHANGED <<branchVars, fileVars, countVars, hashVars, textVars>>

\* an exception leaves the with block: __exit__ runs, the generator is over
Raise(e) ==
    /\ pc' = "raised"
    /\ error' = e
    /\ process' = GitProcessExit(process)
    /\ UNCHANGED <<commit, current_line, cur_count, yielded>>

\* the body of the loop for a line that is no delimiter
Digest(line) ==
    CASE 1 <= current_line /\ current_line <= Len(LOG_INFOS) ->
            LET log_info == LOG_INFOS[current_line]
            IN  [commit |-> Put(commit, log_info[2], Transform(log_info, line)),
                 raised |-> NoError]
      [] current_line = Len(LOG_INFOS) + 1 ->
            [commit |-> Put(commit, "message", rstrip(line)), raised |-> NoError]
      [] current_line > Len(LOG_INFOS) + 1 ->
            [commit |-> Put(commit, "message", commit["message"] \o <<NL>> \o rstrip(line)),
             raised |-> NoError]
      [] current_line = -1 ->
            LET l  == strip(line)
                r1 == parse_changes(commit, l)
                r2 == parse_summary(r1.commit, l)
            IN  IF ~Truthy(r1.ret)
                THEN [commit |-> r2.commit, raised |-> r2.raised]
                ELSE [commit |-> r1.commit, raised |-> NoError]
      [] OTHER -> [commit |-> commit, raised |-> NoError]

\* one iteration of the while loop, up to its end or to the yield in it
ReadLine ==
    /\ pc = "loop"
    /\ LoopCond
    /\ stdout # <<>>
    /\ LET line == rstrip(decode(Head(stdout)))
       IN  /\ stdout' = Tail(stdout)
           /\ lastline' = line
           /\ IF line = DELIMITER1
              THEN IF commit # EmptyDict /\ cur_count >= offset
                   THEN /\ yielded' = Append(yielded, Commit(commit))
                        /\ pc' = "yield"
                        /\ UNCHANGED <<commit, current_line, cur_count, error, process>>
                   ELSE /\ cur_count' = IF commit # EmptyDict THEN cur_count + 1 ELSE cur_count
                        /\ commit' = EmptyDict
                        /\ current_line' = 1
                        /\ UNCHANGED <<pc, yielded, error, process>>
              ELSE IF line = Tail(DELIMITER2)
              THEN IF "message" \notin DOMAIN commit
                   THEN Raise([NoError EXCEPT !.kind = "KeyError", !.text = <<"message">>])
                   ELSE /\ commit' = Put(commit, "message", rstrip(commit["message"]))
                        /\ current_line' = -1
                        /\ UNCHANGED <<pc, cur_count, yielded, error, process>>
              ELSE LET d == Digest(line)
                   IN  IF d.raised # NoError
                       THEN Raise(d.raised)
                       ELSE /\ commit' = d.commit
                            /\ current_line' = IF current_line >= 0 THEN current_line + 1
                                                                    ELSE current_line
                            /\ UNCHANGED <<pc, cur_count, yielded, error, process>>
    /\ UNCHANGED <<frames, offset, count>>
    /\ UNCHANGED <<branchVars, fileVars, countVars, hashVars, textVars>>

\* (mutant) the dict of the finished commit is kept for the next frame
Resume_KeepsCommit ==
    /\ pc = "yield"
    /\ cur_count' = cur_count + 1
    /\ commit' = commit
    /\ current_line' = 1
    /\ pc' = "loop"
    /\ UNCHANGED <<frames, stdout, offset, count, yielded, error, process, lastline>>
    /\ UNCHANGED <<branchVars, fileVars, countVars, hashVars, textVars>>

\* next() at the yield in the loop: the rest of the iteration
Resume ==
    /\ pc = "yield"
    /\ cur_count' = cur_count + 1
    /\ commit' = EmptyDict
    /\ current_line' = 1
    /\ pc' = "loop"
    /\ UNCHANGED <<frames, stdout, offset, count, yielded, error, process, lastline>>
    /\ UNCHANGED <<branchVars, fileVars, countVars, hashVars, textVars>>

\* the loop ends (the while test fails, or readline() returns nothing):
\* the commit in flight is yielded, or the with block is left
EndLoop ==
    /\ pc = "loop"
    /\ ~LoopCond \/ stdout = <<>>
    /\ IF commit # EmptyDict /\ LastCond
       THEN /\ yielded' = Append(yielded, Commit(commit))
            /\ pc' = "yield_last"
            /\ UNCHANGED process
       ELSE /\ pc' = "done"
            /\ process' = GitProcessExit(process)
            /\ UNCHANGED yielded
    /\ UNCHANGED <<frames, stdout, offset, count, commit, current_line, cur_count,
                   error, lastline>>
    /\ UNCHANGED <<branchVars, fileVars, countVars, hashVars, textVars>>

\* next() at the yield after the loop: the with block is left
ResumeLast ==
    /\ pc = "yield_last"
    /\ pc' = "done"
    /\ process' = GitProcessExit(process)
    /\ UNCHANGED <<frames, stdout, offset, count, commit, current_line, cur_count,
                   yielded, error, lastline>>
    /\ UNCHANGED <<branchVars, fileVars, countVars, hashVars, textVars>>

\* (mutant) closing the generator does not run the release of the with block
Close_NoExit ==
    /\ pc \in {"created", "yield", "yield_last"}
    /\ pc' = "closed"
    /\ UNCHANGED <<frames, stdout, offset, count, commit, current_line, cur_count,
                   yielded, error, process, lastline>>
    /\ UNCHANGED <<branchVars, fileVars, countVars, hashVars, textVars>>

\* the consumer closes or drops the generator: GeneratorExit is raised at the
\* yield it is suspended at and leaves the with block; a generator that was
\* never started has no block to leave
Close ==
    /\ pc \in {"created", "yield", "yield_last"}
    /\ pc' = "closed"
    /\ process' = IF pc = "created" THEN process ELSE GitProcessExit(process)
    /\ UNCHANGED <<frames, stdout, offset, count, commit, current_line, cur_count,
                   yielded, error, lastline>>
    /\ UNCHANGED <<branchVars, fileVars, countVars, hashVars, textVars>>

(***************************************************************************)
(* Giterator.iter_commits_consecutive.  A branch is the list                *)
(* [age, commit, commit, ...]; the model keeps with it the number of the   *)
(* run it is (the order in which the branches were opened).                *)
(***************************************************************************)
MaxCommits      == 3    \* commits in the input
MaxBranchLength == 2    \* largest small branch_length (the default is tried too)
MaxBranchAge    == 2    \* largest small branch_age (the default is tried too)

DefaultBranchLength == 100
DefaultBranchAge    == 100

CommitHash == <<"c1", "c2", "c3", "c4", "c5">>
UnknownHash == "c0"       \* a parent that is not part of the input

\* the parent lists of the n-th input commit: at most two parents, each an
\* earlier commit or a commit outside the input (the hash of a later commit
\* is, when the commit is processed, the hash of no branch's last commit,
\* as is the unknown one)
ParentLists(n) ==
    LET H == { CommitHash[i] : i \in 1..(n - 1) } \cup {UnknownHash}
    IN  {<<>>} \cup { <<h>> : h \in H }
               \cup { <<pq[1], pq[2]>> : pq \in { x \in H \X H : x[1] # x[2] } }

InputCommit(n, parents) == [kind |-> "commit", hash |-> CommitHash[n], parent_hash |-> parents]

RECURSIVE Inputs(_)
Inputs(n) ==
    IF n = 0 THEN { <<>> }
    ELSE { Append(prev, InputCommit(n, ps)) : prev \in Inputs(n - 1), ps \in ParentLists(n) }

\* two roots, a commit that extends one of them, and a merge of the two
\* tips, with its parents in either order
MergeInputs ==
    { << InputCommit(1, <<>>), InputCommit(2, <<>>), InputCommit(3, <<CommitHash[t]>>),
         InputCommit(4, IF swap THEN <<CommitHash[3 - t], CommitHash[3]>>
                                ELSE <<CommitHash[3], CommitHash[3 - t]>>) >>
        : t \in 1..2, swap \in BOOLEAN }

\* the synthetic leading slot of a branch list
AgeSlot(n) == [kind |-> "age", age |-> n]

\* branches.append([0, commit])
NewBranch(cm, run) == [run |-> run, list |-> <<AgeSlot(0), cm>>]

Last(list) == list[Len(list)]

\* (mutant) the parents are compared with the first commit of the branch
Matches_First(branch, cm) ==
    \E k \in 1..Len(cm.parent_hash) : cm.parent_hash[k] = branch.list[2].hash

\* the inner for loop: some parent_hash equals branch[-1].hash
Matches(branch, cm) ==
    \E k \in 1..Len(cm.parent_hash) : cm.parent_hash[k] = Last(branch.list).hash

\* (mutant) only the length of the branch is tested
Exceeds_LengthOnly(list) == Len(list) - 1 > branch_length

\* len(branch) - 1 > branch_length or branch[0] > branch_age
Exceeds(list) == Len(list) - 1 > branch_length \/ list[1].age > branch_age

\* (mutant) the first commit of the branch is not emitted
Flush_SkipsFirst(branch) == [i \in 1..(Len(branch.list) - 2) |-> [item |-> branch.list[i + 2], run |-> branch.run]]

\* yield from branch[1:], each commit with the run it is emitted in
Flush(branch) == [i \in 1..(Len(branch.list) - 1) |-> [item |-> branch.list[i + 1], run |-> branch.run]]

\* (mutant) a branch that exceeds its budget is emitted but stays open
ScanStep_KeepsEvicted(acc, branch, cm) ==
    LET hit   == ~acc.added /\ Matches(branch, cm)
        list1 == IF hit THEN Append(branch.list, cm) ELSE branch.list
        list2 == [list1 EXCEPT ![1] = AgeSlot(@.age + 1)]
        b2    == [branch EXCEPT !.list = list2]
    IN  IF Exceeds(list2)
        THEN [acc EXCEPT !.added = acc.added \/ hit,
                         !.out = @ \o Flush(b2),
                         !.new_branches = Append(@, b2),
                         !.gone = Append(@, [run |-> b2.run, last |-> Last(list2).hash,
                                             size |-> Len(list2) - 1])]
        ELSE [acc EXCEPT !.added = acc.added \/ hit,
                         !.new_branches = Append(@, b2)]

\* (mutant) the commit is appended to every branch that matches
ScanStep_AppendsToAll(acc, branch, cm) ==
    LET hit   == Matches(branch, cm)
        list1 == IF hit THEN Append(branch.list, cm) ELSE branch.list
        list2 == [list1 EXCEPT ![1] = AgeSlot(@.age + 1)]
        b2    == [branch EXCEPT !.list = list2]
    IN  IF Exceeds(list2)
        THEN [acc EXCEPT !.added = acc.added \/ hit,
                         !.out = @ \o Flush(b2),
                         !.gone = Append(@, [run |-> b2.run, last |-> Last(list2).hash,
                                             size |-> Len(list2) - 1])]
        ELSE [acc EXCEPT !.added = acc.added \/ hit,
                         !.new_branches = Append(@, b2)]

\* the body of `for branch in branches`: append on the first match, age the
\* branch, then emit it or keep it
ScanStep(acc, branch, cm) ==
    LET hit   == ~acc.added /\ Matches(branch, cm)
        list1 == IF hit THEN Append(branch.list, cm) ELSE branch.list
        list2 == [list1 EXCEPT ![1] = AgeSlot(@.age + 1)]
        b2    == [branch EXCEPT !.list = list2]
    IN  IF Exceeds(list2)
        THEN [acc EXCEPT !.added = acc.added \/ hit,
                         !.out = @ \o Flush(b2),
                         !.gone = Append(@, [run |-> b2.run, last |-> Last(list2).hash,
                                             size |-> Len(list2) - 1])]
        ELSE [acc EXCEPT !.added = acc.added \/ hit,
                         !.new_branches = Append(@, b2)]

\* `for branch in branches`, from added = False and new_branches = []
RECURSIVE Scan(_, _, _)
Scan(bs, n, cm) ==
    IF n = 0
    THEN [added |-> FALSE, new_branches |-> <<>>, out |-> <<>>, gone |-> <<>>]
    ELSE ScanStep(Scan(bs, n - 1, cm), bs[n], cm)

\* (mutant) the branch opened last is not flushed
RECURSIVE FlushAll_SkipsLast(_)
FlushAll_SkipsLast(bs) ==
    IF Len(bs) <= 1 THEN <<>> ELSE Flush(Head(bs)) \o FlushAll_SkipsLast(Tail(bs))

\* for branch in branches: yield from branch[1:]
RECURSIVE FlushAll(_)
FlushAll(bs) == IF bs = <<>> THEN <<>> ELSE Flush(Head(bs)) \o FlushAll(Tail(bs))

RECURSIVE Reverse(_)
Reverse(q) == IF q = <<>> THEN <<>> ELSE Append(Reverse(Tail(q)), Head(q))

\* (mutant) the open branches are flushed newest first
FinalOrder_Reversed(bs) == Reverse(bs)

\* `for branch in branches` after the input: the order of the final flush
FinalOrder(bs) == bs

BranchInit ==
    /\ input \in UNION { Inputs(n) : n \in 0..MaxCommits } \cup MergeInputs
    /\ branch_length \in (0..MaxBranchLength) \cup {DefaultBranchLength}
    /\ branch_age \in (0..MaxBranchAge) \cup {DefaultBranchAge}
    /\ pos = 0
    /\ branches = <<>>
    /\ emitted = <<>>
    /\ opened = 0
    /\ evicted = <<>>
    /\ added = FALSE
    /\ bpc = "loop"

\* one pass of `for commit in self.iter_commits(...)`, with what it yields
ProcessCommit ==
    /\ bpc = "loop"
    /\ pos < Len(input)
    /\ LET c == input[pos + 1]
       IN  IF c.parent_hash = <<>>
           THEN /\ branches' = Append(branches, NewBranch(c, opened + 1))
                /\ opened' = opened + 1
                /\ UNCHANGED <<emitted, evicted, added>>
           ELSE LET r == Scan(branches, Len(branches), c)
                IN  /\ emitted' = emitted \o r.out
                    /\ evicted' = evicted \o [i \in 1..Len(r.gone) |->
                                                 [run |-> r.gone[i].run, last |-> r.gone[i].last,
                                                  size |-> r.gone[i].size, at |-> pos + 1]]
                    /\ added' = r.added
                    /\ IF ~r.added
                       THEN /\ branches' = Append(r.new_branches, NewBranch(c, opened + 1))
                            /\ opened' = opened + 1
                       ELSE /\ branches' = r.new_branches
                            /\ UNCHANGED opened
    /\ pos' = pos + 1
    /\ UNCHANGED <<input, branch_length, branch_age, bpc>>
    /\ UNCHANGED <<parseVars, fileVars, countVars, hashVars, textVars>>

\* the input is exhausted: every open branch is flushed
FinalFlush ==
    /\ bpc = "loop"
    /\ pos = Len(input)
    /\ emitted' = emitted \o FlushAll(FinalOrder(branches))
    /\ bpc' = "done"
    /\ UNCHANGED <<input, branch_length, branch_age, pos, branches, opened, evicted, added>>
    /\ UNCHANGED <<parseVars, fileVars, countVars, hashVars, textVars>>

(***************************************************************************)
(* File: the lazily decoded content of one entry of the archive image that *)
(* iter_files has read into a BytesIO.  A bytes object is [id, bytes]; id  *)
(* 0 is None.                                                              *)
(***************************************************************************)
MaxEntries == 2     \* entries in an archive image
MaxAccess  == 2     \* content accesses on one File

None == [id |-> 0, bytes |-> <<>>]

NoSparse == [isnone |-> TRUE, extents |-> <<>>]

\* the entries an archive image is made of: regular files (one of them
\* empty), a directory, and sparse files (one of them with no extent)
EntryKinds ==
    { [name |-> "empty.txt", isfile |-> TRUE,  data |-> <<>>,           sparse |-> NoSparse],
      [name |-> "file1.txt", isfile |-> TRUE,  data |-> <<"v", "1">>,   sparse |-> NoSparse],
      [name |-> "sub",       isfile |-> FALSE, data |-> <<>>,           sparse |-> NoSparse],
      [name |-> "sub/file2.bin", isfile |-> TRUE, data |-> <<"c", "2", "b">>, sparse |-> NoSparse],
      [name |-> "holes.bin", isfile |-> TRUE,  data |-> <<"x", "y", "z">>,
       sparse |-> [isnone |-> FALSE, extents |-> << <<0, 1>>, <<2, 2>> >>]],
      [name |-> "hole.bin",  isfile |-> TRUE,  data |-> <<>>,
       sparse |-> [isnone |-> FALSE, extents |-> <<>>]],
      [name |-> "far.bin",   isfile |-> TRUE,  data |-> <<"p", "q">>,
       sparse |-> [isnone |-> FALSE, extents |-> << <<2, 3>>, <<1, 1>> >>]] }

\* the image: per entry a header block, then its data
RECURSIVE Image(_)
Image(es) ==
    IF es = <<>> THEN <<>>
    ELSE Image(SubSeq(es, 1, Len(es) - 1)) \o <<"header">> \o es[Len(es)].data

\* the TarInfo tarfile makes of the n-th entry
TarInfo(es, n) ==
    [ name        |-> es[n].name,
      size        |-> Len(es[n].data),
      offset_data |-> Len(Image(SubSeq(es, 1, n - 1))) + 1,
      sparse      |-> es[n].sparse ]

\* (mutant) the read position is left where the last read ended
Seek_Ignored(buf, o) == buf

\* BytesIO.seek(offset)
Seek(buf, o) == [buf EXCEPT !.pos = o]

\* BytesIO.read(size): the bytes read and the buffer afterwards
Read(buf, n) ==
    LET avail == IF buf.pos >= Len(buf.data) THEN 0 ELSE Min(n, Len(buf.data) - buf.pos)
    IN  [bytes |-> SubSeq(buf.data, buf.pos + 1, buf.pos + avail),
         buf   |-> [buf EXCEPT !.pos = @ + avail]]

\* (mutant) the extents are read one after the other without seeking
RECURSIVE ReadExtents_NoSeek(_, _, _)
ReadExtents_NoSeek(buf, extents, n) ==
    IF n = 0 THEN [bytes |-> <<>>, buf |-> buf]
    ELSE LET before == ReadExtents_NoSeek(buf, extents, n - 1)
             r      == Read(before.buf, extents[n][2])
         IN  [bytes |-> before.bytes \o r.bytes, buf |-> r.buf]

\* for offset, size in self._tarinfo.sparse: seek, read, append
RECURSIVE ReadExtents(_, _, _)
ReadExtents(buf, extents, n) ==
    IF n = 0 THEN [bytes |-> <<>>, buf |-> buf]
    ELSE LET before == ReadExtents(buf, extents, n - 1)
             r      == Read(Seek(before.buf, extents[n][1]), extents[n][2])
         IN  [bytes |-> before.bytes \o r.bytes, buf |-> r.buf]

\* (mutant) the cache test is `if not self._data`
IsNone_Falsy(d) == d.id = 0 \/ d.bytes = <<>>

\* self._data is None
IsNone(d) == d.id = 0

\* File(self, tar_data, tarinfo)
NewFile(tarinfo) == [tarinfo |-> tarinfo, data |-> None]

\* the end-of-archive blocks that close every tar image
EndOfArchive == <<"eof">>

\* the values of the argument filenames: None, an empty list, a list of paths
NoFilenames == [isnone |-> TRUE, value |-> <<>>]
FilenameArgs ==
    { NoFilenames,
      [isnone |-> FALSE, value |-> <<>>],
      [isnone |-> FALSE, value |-> << <<"file1.txt">> >>] }

\* `not filenames`
NoRestriction(fn) == fn.isnone \/ fn.value = <<>>

\* what git archive writes to stderr when it fails: the treeish is not valid,
\* or (with a path restriction) a path matches nothing
ErrorTexts(fn) ==
    { <<"fatal:", " ", "not a valid object name", NL>> }
    \cup (IF NoRestriction(fn) THEN {}
          ELSE { <<"fatal:", " ", "pathspec did not match any files", NL>> })

\* bytes.decode("utf-8"): strict, an invalid byte raises
decode_utf8(b) ==
    IF \E i \in 1..Len(b) : b[i] = BadByte
    THEN [kind |-> "UnicodeDecodeError", detail |-> <<>>]
    ELSE [kind |-> "str", detail |-> b]

NoFileError == [kind |-> "none", detail |-> <<>>]

\* git archive either writes the image of the tree (and nothing to stderr)
\* or fails: it writes nothing to stdout and its message to stderr
FileInit ==
    /\ filenames \in FilenameArgs
    /\ \/ /\ archive \in SeqsUpTo(EntryKinds, MaxEntries)
          /\ buffer = [data |-> Image(archive) \o EndOfArchive, pos |-> 0]
          /\ error_response = <<>>
       \/ /\ archive = <<>>
          /\ buffer = [data |-> <<>>, pos |-> 0]
          /\ error_response \in ErrorTexts(filenames)
    /\ fpc = "created"
    /\ ferror = NoFileError
    /\ entry = 0
    /\ files = <<>>
    /\ heap = 0
    /\ reads = <<>>
    /\ results = <<>>

\* tarfile.open(fileobj=tar_data) raises ReadError on an image with no block
Unreadable(buf) == buf.data = <<>>

\* (mutant) the read failure is swallowed with a path restriction too
OnReadError_Swallow(fn, err) == [fpc |-> "done", ferror |-> NoFileError]

\* except tarfile.ReadError: return if not filenames, else raise ReadError
\* with the decoded stderr text
OnReadError(fn, err) ==
    IF NoRestriction(fn)
    THEN [fpc |-> "done", ferror |-> NoFileError]
    ELSE LET text == decode_utf8(err)
         IN  IF text.kind = "str"
             THEN [fpc |-> "raised", ferror |-> [kind |-> "ReadError", detail |-> text.detail]]
             ELSE [fpc |-> "raised", ferror |-> text]

\* the first next(): the process is run and read, and tarfile opens the image
OpenArchive ==
    /\ fpc = "created"
    /\ IF Unreadable(buffer)
       THEN LET out == OnReadError(filenames, error_response)
            IN  fpc' = out.fpc /\ ferror' = out.ferror
       ELSE fpc' = "iter" /\ UNCHANGED ferror
    /\ buffer' = Seek(buffer, 0)
    /\ UNCHANGED <<archive, entry, files, heap, reads, results, filenames, error_response>>
    /\ UNCHANGED <<parseVars, branchVars, countVars, hashVars, textVars>>

\* the image has no further entry: the generator returns
EndFiles ==
    /\ fpc = "iter"
    /\ entry = Len(archive)
    /\ fpc' = "done"
    /\ UNCHANGED <<archive, buffer, entry, files, heap, reads, results,
                   filenames, error_response, ferror>>
    /\ UNCHANGED <<parseVars, branchVars, countVars, hashVars, textVars>>

\* iter_files hands out the next entry: tarfile reads its header, and a File
\* is yielded for a regular file
NextFile ==
    /\ fpc = "iter"
    /\ entry < Len(archive)
    /\ entry' = entry + 1
    /\ LET ti == TarInfo(archive, entry + 1)
       IN  /\ buffer' = Seek(buffer, ti.offset_data)
           /\ IF archive[entry + 1].isfile
              THEN /\ files' = Append(files, NewFile(ti))
                   /\ reads' = Append(reads, 0)
                   /\ results' = Append(results, <<>>)
              ELSE UNCHANGED <<files, reads, results>>
    /\ UNCHANGED <<archive, heap, filenames, error_response, fpc, ferror>>
    /\ UNCHANGED <<parseVars, branchVars, countVars, hashVars, textVars>>

\* File.content of the f-th File
Content(f) ==
    /\ f \in 1..Len(files)
    /\ Len(results[f]) < MaxAccess
    /\ LET file == files[f]
           ti   == file.tarinfo
       IN  IF IsNone(file.data)
           THEN LET r == IF ~ti.sparse.isnone
                         THEN ReadExtents(buffer, ti.sparse.extents, Len(ti.sparse.extents))
                         ELSE Read(Seek(buffer, ti.offset_data), ti.size)
                    obj == [id |-> heap + 1, bytes |-> r.bytes]
                IN  /\ buffer' = r.buf
                    /\ heap' = heap + 1
                    /\ files' = [files EXCEPT ![f].data = obj]
                    /\ reads' = [reads EXCEPT ![f] = @ + 1]
                    /\ results' = [results EXCEPT ![f] = Append(@, obj)]
           ELSE /\ results' = [results EXCEPT ![f] = Append(@, file.data)]
                /\ UNCHANGED <<buffer, heap, files, reads>>
    /\ UNCHANGED <<archive, entry, filenames, error_response, fpc, ferror>>
    /\ UNCHANGED <<parseVars, branchVars, countVars, hashVars, textVars>>

(***************************************************************************)
(* Giterator.num_commits over a repository that grows.                     *)
(***************************************************************************)
MaxRepoCommits == 3     \* commits made to the repository
MaxCalls       == 2     \* num_commits calls

\* an int attribute that may be None
NoInt == [isnone |-> TRUE, value |-> 0]

\* a commit of the repository: the file it touches, and whether a branch
\* reaches it (otherwise only a tag does)
RepoCommits == [file : {"file1.txt", "file2.txt"}, onbranch : BOOLEAN]

\* the values of *filenames
FilenameLists == { <<>>, <<"file1.txt">>, <<"file2.txt">> }

NoCall == [filenames |-> <<>>, all |-> FALSE, at |-> 0, returned |-> 0]

DigitTok == <<"0", "1", "2", "3", "4", "5", "6", "7", "8", "9">>

\* the decimal digits of n, as git prints them
RECURSIVE Decimal(_)
Decimal(n) == IF n < 10 THEN <<DigitTok[n + 1]>>
              ELSE Decimal(n \div 10) \o <<DigitTok[(n % 10) + 1]>>

\* int(output): the number the digits of the stripped text denote
RECURSIVE int(_)
int(s) ==
    LET t == strip(s)
    IN  IF t = <<>> THEN 0
        ELSE 10 * int(SubSeq(t, 1, Len(t) - 1))
             + (CHOOSE d \in 0..9 : DigitTok[d + 1] = t[Len(t)])

\* git rev-list --count (--all | --branches) [-- filenames]: the output for
\* the first n commits of the repository
rev_list_count(n, fnames, all) ==
    LET hits == { i \in 1..n :
                    /\ all \/ repo[i].onbranch
                    /\ fnames = <<>> \/ \E k \in 1..Len(fnames) : fnames[k] = repo[i].file }
    IN  Decimal(Cardinality(hits)) \o <<NL>>

CountInit ==
    /\ repo \in SeqsUpTo(RepoCommits, 1)
    /\ self_num_commits = NoInt
    /\ ncalls = 0
    /\ call = NoCall

\* a commit is made to the repository (outside the program)
GitCommit ==
    /\ Len(repo) < MaxRepoCommits
    /\ \E c \in RepoCommits : repo' = Append(repo, c)
    /\ UNCHANGED <<self_num_commits, ncalls, call>>
    /\ UNCHANGED <<parseVars, branchVars, fileVars, hashVars, textVars>>

\* self._num_commits is None
CacheEmpty(c) == c.isnone

\* num_commits(*filenames, all=all)
NumCommits ==
    /\ ncalls < MaxCalls
    /\ \E fnames \in FilenameLists, all \in BOOLEAN :
         LET output == rev_list_count(Len(repo), fnames, all)
             cached == IF CacheEmpty(self_num_commits)
                       THEN [isnone |-> FALSE, value |-> int(output)]
                       ELSE self_num_commits
         IN  /\ self_num_commits' = cached
             /\ call' = [filenames |-> fnames, all |-> all, at |-> Len(repo),
                         returned |-> cached.value]
    /\ ncalls' = ncalls + 1
    /\ UNCHANGED repo
    /\ UNCHANGED <<parseVars, branchVars, fileVars, hashVars, textVars>>

(***************************************************************************)
(* Giterator.iter_commit_hashes: the generator over git rev-list.          *)
(***************************************************************************)
MaxHashRecords == 3     \* commits git rev-list reports
MaxHashOffset  == 2     \* argument offset
MaxHashCount   == 2     \* argument count

\* the attributes a Giterator has: those __init__ sets, and those of the class
Attributes ==
    { "verbose", "path", "_num_commits", "_hashes", "GIT_COMMAND",
      "_RE_CHANGE_NUMSTATS", "_RE_CHANGE_SUMMARY", "_LOG_INFOS",
      "_DELIMITER1", "_DELIMITER2", "_GitProcess" }

\* the two lines git rev-list --children --pretty="%aI %T %P" writes for the
\* n-th commit of a linear history of `total` commits
RevListLines(n, total) ==
    << <<"commit", " ", HashTok[n]>>
         \o (IF n < total THEN <<" ", HashTok[n + 1]>> ELSE <<>>) \o <<NL>>,
       <<"2020-01-01T00:00:00+00:00", " ", "tree", " ">>
         \o (IF n > 1 THEN <<HashTok[n - 1]>> ELSE <<>>) \o <<NL>> >>

RECURSIVE RevList(_, _)
RevList(n, total) ==
    IF n = 0 THEN <<>> ELSE RevList(n - 1, total) \o RevListLines(n, total)

\* the loop of iter_commit_hashes, run to its end by a consumer that takes
\* everything: the dicts it yields from the lines
RECURSIVE hashes_loop(_, _, _, _, _)
hashes_loop(lines, off, cnt, c, cur) ==
    IF ~(cnt <= 0 \/ (cur - off) < cnt) THEN <<>>
    ELSE IF lines = <<>> THEN <<>>
    ELSE LET line == split(Head(lines))
         IN  IF line[1] = "commit"
             THEN hashes_loop(Tail(lines), off, cnt,
                              Put(Put(c, "hash", <<line[2]>>),
                                  "children_hash", SubSeq(line, 3, Len(line))),
                              cur)
             ELSE LET done == Put(Put(Put(c, "date", parse_datetime(<<line[1]>>)),
                                      "tree_hash", <<line[2]>>),
                                  "parent_hash", SubSeq(line, 3, Len(line)))
                  IN  <<done>> \o hashes_loop(Tail(lines), off, cnt, EmptyDict, cur + 1)

HashInit ==
    /\ \E total \in 0..MaxHashRecords : hlines = RevList(total, total)
    /\ hstdout = hlines
    /\ hoffset \in 0..MaxHashOffset
    /\ hcount \in 0..MaxHashCount
    /\ hall \in BOOLEAN
    /\ hpc = "created"
    /\ hcommit = EmptyDict
    /\ hcur_count = 0
    /\ hyielded = <<>>
    /\ herror = NoError

\* the first next(): the command is assembled, and both arms of `if all`
\* read self._git_args
HashStart ==
    /\ hpc = "created"
    /\ IF "_git_args" \in Attributes
       THEN /\ hpc' = "done"
            /\ hyielded' = hashes_loop(hlines, hoffset, hcount, EmptyDict, 0)
            /\ hstdout' = <<>>
            /\ UNCHANGED herror
       ELSE /\ hpc' = "raised"
            /\ herror' = [NoError EXCEPT !.kind = "AttributeError",
                                         !.text = <<"_git_args">>]
            /\ UNCHANGED <<hyielded, hstdout>>
    /\ UNCHANGED <<hlines, hoffset, hcount, hall, hcommit, hcur_count>>
    /\ UNCHANGED <<parseVars, branchVars, fileVars, countVars, textVars>>

\* the generator is closed before it was started
HashClose ==
    /\ hpc = "created"
    /\ hpc' = "closed"
    /\ UNCHANGED <<hlines, hstdout, hoffset, hcount, hall, hcommit, hcur_count,
                   hyielded, herror>>
    /\ UNCHANGED <<parseVars, branchVars, fileVars, countVars, textVars>>

(***************************************************************************)
(* File.text: the content handed to bytes.decode.                          *)
(***************************************************************************)
MaxTextLen   == 2     \* bytes of a content
MaxTextCalls == 2     \* text calls on one File

\* the bytes a content is made of: an ASCII byte, a byte that is a letter in
\* latin-1 and no character by itself in UTF-8, and a byte that is never valid UTF-8
ByteToks == {"a", "\\xe9", BadByte}

\* None, as the value of an optional str argument
NoneStr == "<None>"

\* the values of the arguments encoding and errors
EncodingArgs == {NoneStr, "utf-8", "latin-1"}
ErrorsArgs   == {NoneStr, "strict", "ignore", "replace"}

\* the truth value of an optional str
StrTruthy(x) == x # NoneStr /\ x # ""

\* the encodings the codec registry knows, the error modes it knows
Codecs     == {"utf-8", "latin-1"}
ErrorModes == {"strict", "ignore", "replace"}

\* the character a byte is in an encoding ("" when it is none)
CharOf(byte, encoding) ==
    CASE byte = "a"                              -> "a"
      [] byte = "\\xe9" /\ encoding = "latin-1"  -> "e-acute"
      [] byte = BadByte /\ encoding = "latin-1"   -> "y-diaeresis"
      [] OTHER                                   -> ""

RECURSIVE DecodeBytes(_, _, _)
DecodeBytes(b, encoding, errors) ==
    IF b = <<>> THEN <<>>
    ELSE LET ch == CharOf(Head(b), encoding)
         IN  (IF ch # "" THEN <<ch>>
              ELSE IF errors = "ignore" THEN <<>>
              ELSE <<"U+FFFD">>)
             \o DecodeBytes(Tail(b), encoding, errors)

\* bytes.decode(encoding="utf-8", errors="strict"), called with the
\* positional arguments args
bytes_decode(b, args) ==
    LET encoding == IF Len(args) >= 1 THEN args[1] ELSE "utf-8"
        errors   == IF Len(args) >= 2 THEN args[2] ELSE "strict"
        invalid  == \E i \in 1..Len(b) : CharOf(b[i], encoding) = ""
    IN  [ encoding |-> encoding,
          errors   |-> errors,
          kind     |-> IF encoding \notin Codecs THEN "LookupError"
                       ELSE IF invalid /\ errors \notin ErrorModes THEN "LookupError"
                       ELSE IF invalid /\ errors = "strict" THEN "UnicodeDecodeError"
                       ELSE "str",
          text     |-> IF encoding \in Codecs /\ (~invalid \/ errors \in {"ignore", "replace"})
                       THEN DecodeBytes(b, encoding, errors) ELSE <<>> ]

\* kwargs, as text() fills it: the keys in insertion order, and the values
text_kwargs(encoding, errors) ==
    LET k1 == IF StrTruthy(encoding) THEN << <<"encoding", encoding>> >> ELSE <<>>
        k2 == IF StrTruthy(errors) THEN << <<"errors", errors>> >> ELSE <<>>
    IN  k1 \o k2

\* *kwargs: a dict unpacked with one star gives its keys
Star(kwargs) == [i \in 1..Len(kwargs) |-> kwargs[i][1]]

NoTextCall == [encoding |-> NoneStr, errors |-> NoneStr,
               got |-> bytes_decode(<<>>, <<>>)]

TextInit ==
    /\ tcontent \in SeqsUpTo(ByteToks, MaxTextLen)
    /\ tncalls = 0
    /\ tcall = NoTextCall

\* File.text(encoding, errors)
Text ==
    /\ tncalls < MaxTextCalls
    /\ \E encoding \in EncodingArgs, errors \in ErrorsArgs :
         tcall' = [encoding |-> encoding, errors |-> errors,
                   got |-> bytes_decode(tcontent, Star(text_kwargs(encoding, errors)))]
    /\ tncalls' = tncalls + 1
    /\ UNCHANGED tcontent
    /\ UNCHANGED <<parseVars, branchVars, fileVars, countVars, hashVars>>

(***************************************************************************)
(* The parts of the state that a specification does not use stay idle.     *)
(***************************************************************************)
BranchIdle ==
    /\ input = <<>> /\ branch_length = 0 /\ branch_age = 0 /\ pos = 0
    /\ branches = <<>> /\ emitted = <<>> /\ opened = 0 /\ evicted = <<>>
    /\ added = FALSE /\ bpc = "idle"

FileIdle ==
    /\ archive = <<>> /\ buffer = [data |-> <<>>, pos |-> 0] /\ entry = 0
    /\ files = <<>> /\ heap = 0 /\ reads = <<>> /\ results = <<>>
    /\ filenames = NoFilenames /\ error_response = <<>>
    /\ fpc = "idle" /\ ferror = NoFileError

CountIdle ==
    /\ repo = <<>> /\ self_num_commits = NoInt /\ ncalls = 0 /\ call = NoCall

HashIdle ==
    /\ hlines = <<>> /\ hstdout = <<>> /\ hoffset = 0 /\ hcount = 0
    /\ hall = FALSE /\ hpc = "idle" /\ hcommit = EmptyDict /\ hcur_count = 0
    /\ hyielded = <<>> /\ herror = NoError

TextIdle ==
    /\ tcontent = <<>> /\ tncalls = 0 /\ tcall = NoTextCall

(***************************************************************************)
(* Specification of the log parser: a consumer that pulls, or closes.      *)
(***************************************************************************)
Init == ParseInit /\ BranchIdle /\ FileIdle /\ CountIdle /\ HashIdle /\ TextIdle

Next == Start \/ StartFails \/ ReadLine \/ Resume \/ EndLoop \/ ResumeLast \/ Close

Spec == Init /\ [][Next]_vars

(***************************************************************************)
(* What a frame says, read off its lines (not off the parser's state).     *)
(***************************************************************************)
Clean(raw) == rstrip(decode(raw))

IsNumstat(raw) == RE_CHANGE_NUMSTATS(strip(Clean(raw)))

IsRenameNotice(raw) ==
    LET l == strip(Clean(raw)) IN Len(l) >= 2 /\ l[1] = "rename" /\ l[2] = " "

\* a summary line other than the rename notice
IsSummary(raw) == ~IsRenameNotice(raw) /\ RE_CHANGE_SUMMARY(strip(Clean(raw)))

SummaryPath(raw) == LET l == strip(Clean(raw)) IN SubSeq(l, 7, Len(l))

NumstatPath(raw) == LET l == strip(Clean(raw)) IN SubSeq(l, 5, Len(l))

\* the name of the Change a numeric-stat line stands for
NumstatName(raw) ==
    IF get_git_renaming(NumstatPath(raw)) # <<>>
    THEN get_git_renaming(NumstatPath(raw))[2]
    ELSE NumstatPath(raw)

\* the positions of the numeric-stat lines of a change section for path p
NumstatsFor(ch, p) == { a \in 1..Len(ch) : IsNumstat(ch[a]) /\ NumstatName(ch[a]) = p }

\* the positions of its summary lines for path p
SummariesFor(ch, p) == { b \in 1..Len(ch) : IsSummary(ch[b]) /\ SummaryPath(ch[b]) = p }

\* every summary line names a path an earlier numeric-stat line recorded,
\* and no two numeric-stat lines record the same path
ChangeSectionOK(ch) ==
    /\ \A b \in 1..Len(ch) :
          IsSummary(ch[b]) => \E a \in 1..(b - 1) : a \in NumstatsFor(ch, SummaryPath(ch[b]))
    /\ \A a \in 1..Len(ch) :
          IsNumstat(ch[a]) => Cardinality(NumstatsFor(ch, NumstatName(ch[a]))) = 1

WellFormed(fs) ==
    \A i \in 1..Len(fs) :
        /\ Len(fs[i].meta) = Len(LOG_INFOS)
        /\ Len(fs[i].msg) >= 1
        /\ ChangeSectionOK(fs[i].changes)

RECURSIVE JoinLines(_)
JoinLines(ls) ==
    IF Len(ls) = 1 THEN rstrip(Clean(ls[1]))
    ELSE JoinLines(SubSeq(ls, 1, Len(ls) - 1)) \o <<NL>> \o rstrip(Clean(ls[Len(ls)]))

\* the Change that the numeric-stat line at position a of section ch, with the
\* summary lines that follow it, describes
ExpectedChange(ch, a) ==
    LET path == NumstatPath(ch[a])
        ren  == get_git_renaming(path)
        name == NumstatName(ch[a])
        l    == strip(Clean(ch[a]))
        base == IF ren # <<>>
                THEN [name |-> name, old_name |-> ren[1], type |-> "rename",
                      additions |-> l[1], deletions |-> l[3]]
                ELSE [name |-> name, type |-> "change",
                      additions |-> l[1], deletions |-> l[3]]
        sums == SummariesFor(ch, name)
    IN  IF sums = {} THEN base
        ELSE LET b == CHOOSE b \in sums : \A c \in sums : c <= b
                 sl == strip(Clean(ch[b]))
             IN  Update(base, [type |-> sl[1], mode |-> sl[5]])

RECURSIVE ExpectedChanges(_, _)
ExpectedChanges(ch, n) ==
    IF n = 0 THEN <<>>
    ELSE IF IsNumstat(ch[n]) THEN Append(ExpectedChanges(ch, n - 1), ExpectedChange(ch, n))
    ELSE ExpectedChanges(ch, n - 1)

\* the Commit a well-formed frame describes
ExpectedCommit(f) ==
    LET fields == [k \in { LOG_INFOS[j][2] : j \in 1..Len(LOG_INFOS) } |->
                      LET j == CHOOSE j \in 1..Len(LOG_INFOS) : LOG_INFOS[j][2] = k
                      IN  Transform(LOG_INFOS[j], Clean(f.meta[j]))]
        withMsg == Put(fields, "message", rstrip(JoinLines(f.msg)))
    IN  IF \E a \in 1..Len(f.changes) : IsNumstat(f.changes[a])
        THEN Put(withMsg, "changes", ExpectedChanges(f.changes, Len(f.changes)))
        ELSE withMsg

\* the generator is not running: yielded changes only in a step that leaves
\* the while test, so the states at the while test show no other yielded
Suspended == pc # "loop"

(***************************************************************************)
(* C1: for a well-formed stream of N frames, iter_commits with offset=0    *)
(* and count=0 yields exactly N Commits in frame order, the i-th carrying  *)
(* exactly the fields, message and changes of the i-th frame.              *)
(***************************************************************************)
C1_AllFramesInOrder ==
    (Suspended /\ offset = 0 /\ count = 0 /\ WellFormed(frames)) =>
        /\ Len(yielded) <= Len(frames)
        /\ \A i \in 1..Len(yielded) : yielded[i] = ExpectedCommit(frames[i])
        /\ pc = "done" => Len(yielded) = Len(frames)
        /\ pc = "raised" => error.kind = "OSError"

C1_Witness ==
    /\ WellFormed(frames) /\ offset = 0 /\ count = 0
    /\ pc = "done"
    /\ Len(frames) = 3 /\ Len(yielded) = 3
    /\ "changes" \in DOMAIN yielded[1]
    /\ "changes" \notin DOMAIN yielded[2]
    /\ "changes" \in DOMAIN yielded[3]

(***************************************************************************)
(* C2: iter_commits(offset=k, count=m) over N well-formed frames yields    *)
(* the slice [k, k+m) of the unrestricted sequence when m > 0, that is     *)
(* max(0, min(m, N-k)) commits, and the slice [k, N) when m <= 0; the      *)
(* commit in flight at the end of the stream obeys the same arithmetic.    *)
(***************************************************************************)
SliceEnd == IF count > 0 THEN Min(offset + count, Len(frames)) ELSE Len(frames)

SliceLen == Max(0, SliceEnd - offset)

C2_OffsetCountSlice ==
    (Suspended /\ offset >= 0 /\ WellFormed(frames)) =>
        /\ Len(yielded) <= SliceLen
        /\ \A i \in 1..Len(yielded) : yielded[i] = ExpectedCommit(frames[offset + i])
        /\ pc = "done" =>
              /\ Len(yielded) = SliceLen
              /\ Len(yielded) = IF count > 0
                                THEN Max(0, Min(count, Len(frames) - offset))
                                ELSE Max(0, Len(frames) - offset)
        /\ pc = "raised" => error.kind = "OSError"

\* the last of three frames, in flight at the end of the stream, is yielded
\* as the second commit of the slice [1, 3)
C2_Witness ==
    /\ WellFormed(frames) /\ Len(frames) = 3
    /\ offset = 1 /\ count = 2
    /\ pc = "done" /\ stdout = <<>>
    /\ Len(yielded) = 2

(***************************************************************************)
(* C3: a summary line `<word> mode <6 digits> <path>` (word not `rename`)  *)
(* in a change section whose path is the name of no Change recorded so far *)
(* in the frame (also when no numeric-stat line was seen at all) makes     *)
(* iter_commits abort with the descriptive protocol-violation error that   *)
(* carries the offending line and the partially built commit.              *)
(***************************************************************************)
RecordedNames(c) ==
    IF "changes" \in DOMAIN c
    THEN { c["changes"][i]["name"] : i \in 1..Len(c["changes"]) }
    ELSE {}

\* the loop body has just digested, in a change section, a summary line
\* whose path no Change of the commit in flight has
UnmatchedSummaryDigested ==
    /\ pc \in {"loop", "raised"}
    /\ current_line = -1
    /\ IsSummary(lastline)
    /\ SummaryPath(lastline) \notin RecordedNames(commit)

C3_UnmatchedSummaryAborts ==
    UnmatchedSummaryDigested =>
        /\ pc = "raised"
        /\ error.kind = "AssertionError"
        /\ error.line = strip(lastline)
        /\ error.commit = commit

(***************************************************************************)
(* C4: in a frame whose numeric-stat lines name distinct paths, a          *)
(* numeric-stat line for p followed by a summary line `w mode m p`         *)
(* (w not `rename`) gives the Commit exactly one Change named p, with      *)
(* type w, mode m and the additions/deletions of the numeric-stat line;    *)
(* the summary line adds no Change and alters no Change of another path.   *)
(***************************************************************************)
NumstatPositions(ch) == { a \in 1..Len(ch) : IsNumstat(ch[a]) }

DistinctPaths(ch) ==
    \A a \in NumstatPositions(ch) : Cardinality(NumstatsFor(ch, NumstatName(ch[a]))) = 1

ChangesNamed(y, p) ==
    IF "changes" \in DOMAIN y
    THEN { j \in 1..Len(y["changes"]) : y["changes"][j]["name"] = p }
    ELSE {}

C4_SummaryEnrichesItsChange ==
    (Suspended /\ offset >= 0) =>
    \A i \in 1..Len(yielded) :
        LET y  == yielded[i]
            ch == frames[offset + i].changes
        IN  \A a, b \in 1..Len(ch) :
              ( /\ a < b
                /\ IsNumstat(ch[a])
                /\ IsSummary(ch[b])
                /\ SummaryPath(ch[b]) = NumstatName(ch[a])
                /\ SummariesFor(ch, NumstatName(ch[a])) = {b}
                /\ DistinctPaths(ch) )
              => LET p  == NumstatName(ch[a])
                     nl == strip(Clean(ch[a]))
                     sl == strip(Clean(ch[b]))
                 IN  /\ Cardinality(ChangesNamed(y, p)) = 1
                     /\ Len(y["changes"]) = Cardinality(NumstatPositions(ch))
                     /\ \A j \in ChangesNamed(y, p) :
                           /\ y["changes"][j]["type"] = sl[1]
                           /\ y["changes"][j]["mode"] = sl[5]
                           /\ y["changes"][j]["additions"] = nl[1]
                           /\ y["changes"][j]["deletions"] = nl[3]
                     /\ \A j \in 1..Len(y["changes"]) :
                           SummariesFor(ch, y["changes"][j]["name"]) = {} =>
                               /\ "mode" \notin DOMAIN y["changes"][j]
                               /\ y["changes"][j]["type"] \in {"change", "rename"}

\* a Commit with two Changes, the first enriched by its summary line, the
\* second left as the numeric-stat line made it
C4_Witness ==
    /\ Len(yielded) = 1 /\ offset = 0
    /\ "changes" \in DOMAIN yielded[1]
    /\ Len(yielded[1]["changes"]) = 2
    /\ yielded[1]["changes"][1]["name"] = <<"a.txt">>
    /\ yielded[1]["changes"][1]["type"] = "create"
    /\ "mode" \in DOMAIN yielded[1]["changes"][1]
    /\ "mode" \notin DOMAIN yielded[1]["changes"][2]
    /\ IsSummary(frames[1].changes[3])

(***************************************************************************)
(* C5: a numeric-stat line encoding a rename old -> new, followed by the   *)
(* `rename ...` summary notice, yields exactly one Change for the file,    *)
(* with name=new, old_name=old, type="rename"; the notice adds no Change,  *)
(* modifies no Change and raises no error.                                 *)
(***************************************************************************)
C5_RenameIsOneChange ==
    /\ pc = "raised" => ~IsRenameNotice(lastline)
    /\ (Suspended /\ offset >= 0) =>
       \A i \in 1..Len(yielded) :
          LET y  == yielded[i]
              ch == frames[offset + i].changes
          IN  \A a, b \in 1..Len(ch) :
                ( /\ a < b
                  /\ IsNumstat(ch[a])
                  /\ get_git_renaming(NumstatPath(ch[a])) # <<>>
                  /\ IsRenameNotice(ch[b])
                  /\ SummariesFor(ch, NumstatName(ch[a])) = {}
                  /\ DistinctPaths(ch) )
                => LET ren == get_git_renaming(NumstatPath(ch[a]))
                   IN  /\ Cardinality(ChangesNamed(y, ren[2])) = 1
                       /\ ChangesNamed(y, NumstatPath(ch[a])) = {}
                       /\ Len(y["changes"]) = Cardinality(NumstatPositions(ch))
                       /\ \A j \in ChangesNamed(y, ren[2]) :
                             /\ "old_name" \in DOMAIN y["changes"][j]
                             /\ y["changes"][j]["old_name"] = ren[1]
                             /\ y["changes"][j]["type"] = "rename"
                             /\ "mode" \notin DOMAIN y["changes"][j]

\* the frame `2 7 old.txt => new.txt`, ` rename old.txt => new.txt (100%)`
\* has been parsed into one Change
C5_Witness ==
    /\ Len(yielded) = 1 /\ offset = 0
    /\ Len(frames[1].changes) = 2
    /\ IsNumstat(frames[1].changes[1])
    /\ IsRenameNotice(frames[1].changes[2])
    /\ lastline = Clean(frames[1].changes[2])
    /\ Len(yielded[1]["changes"]) = 1
    /\ yielded[1]["changes"][1]["name"] = <<"new.txt">>
    /\ yielded[1]["changes"][1]["old_name"] = <<"old.txt">>

(***************************************************************************)
(* C9: no process is started before the first element is requested, and   *)
(* a started process is killed and awaited exactly when the iteration      *)
(* ends: exhaustion, count limit, close/drop by the consumer, or an error. *)
(***************************************************************************)
C9_ProcessReleased ==
    /\ process.started <= 1
    /\ pc = "created" => process = NewProcess
    /\ pc \in {"loop", "yield", "yield_last"} =>
          process.started = 1 /\ process.killed = 0 /\ process.waited = 0
    /\ pc \in {"done", "raised", "closed"} =>
          process.killed = process.started /\ process.waited = process.started
    /\ pc \in {"done"} => process.started = 1
    /\ (pc = "closed" /\ yielded # <<>>) => process.started = 1

\* as first_commit does: one element pulled, then the generator dropped,
\* with lines left unread
C9_Witness ==
    /\ pc = "closed"
    /\ Len(yielded) = 1
    /\ stdout # <<>>
    /\ process = [started |-> 1, killed |-> 1, waited |-> 1]

(***************************************************************************)
(* Specification of the branch reconstructor, consumed to the end.         *)
(***************************************************************************)
BranchSpecInit == ParseIdle /\ BranchInit /\ FileIdle /\ CountIdle /\ HashIdle /\ TextIdle

BranchNext == ProcessCommit \/ FinalFlush

BranchSpec == BranchSpecInit /\ [][BranchNext]_vars

(***************************************************************************)
(* C6: every run of iter_commits_consecutive (the commits of one branch,   *)
(* emitted on eviction or at the final flush) is emitted contiguously and  *)
(* is a parent -> child chain: each commit after the first has the hash of *)
(* the commit before it among its parents; the age slot is never emitted.  *)
(***************************************************************************)
Range(q) == { q[i] : i \in 1..Len(q) }

C6_RunsAreChains ==
    /\ \A i \in 1..Len(emitted) : emitted[i].item.kind = "commit"
    /\ \A i, j \in 1..Len(emitted) :
          (i < j /\ emitted[i].run = emitted[j].run) =>
              \A k \in i..j : emitted[k].run = emitted[i].run
    /\ \A i \in 1..(Len(emitted) - 1) :
          emitted[i].run = emitted[i + 1].run =>
              emitted[i].item.hash \in Range(emitted[i + 1].item.parent_hash)

\* a run of two commits flushed by eviction, and a later run
C6_Witness ==
    /\ bpc = "done"
    /\ Len(emitted) = 3
    /\ Len(evicted) = 1 /\ evicted[1].size = 2
    /\ emitted[1].run = emitted[2].run
    /\ emitted[3].run # emitted[2].run

(***************************************************************************)
(* C7: a linear input C1..Cn is yielded in that order, as one run when n   *)
(* is within the branch_length / branch_age budget; an input none of whose *)
(* commits is a parent of another is yielded in input order, each commit   *)
(* as a run of its own.                                                    *)
(***************************************************************************)
EmittedCommits == [i \in 1..Len(emitted) |-> emitted[i].item]

IsLinear(inp) ==
    /\ Len(inp) >= 1
    /\ inp[1].parent_hash = <<>>
    /\ \A i \in 2..Len(inp) : inp[i].parent_hash = <<inp[i - 1].hash>>

Unrelated(inp) ==
    \A i, j \in 1..Len(inp) : inp[j].hash \notin Range(inp[i].parent_hash)

C7_LinearAndUnrelated ==
    bpc = "done" =>
        /\ IsLinear(input) =>
              /\ EmittedCommits = input
              /\ (Len(input) <= branch_length /\ Len(input) <= branch_age) =>
                    \A i, j \in 1..Len(emitted) : emitted[i].run = emitted[j].run
        /\ Unrelated(input) =>
              /\ EmittedCommits = input
              /\ \A i, j \in 1..Len(emitted) : i # j => emitted[i].run # emitted[j].run

\* C1 -> C2 -> C3 with branch_length = 100: one run
C7_Witness ==
    /\ bpc = "done"
    /\ IsLinear(input) /\ Len(input) = 3
    /\ branch_length = DefaultBranchLength /\ branch_age = DefaultBranchAge
    /\ Len(emitted) = 3
    /\ emitted[1].run = emitted[3].run

(***************************************************************************)
(* C8: a branch evicted for its age or length is flushed at that moment    *)
(* and takes part in no later matching: a later commit that names the      *)
(* evicted branch's last commit as a parent is not appended to it, and     *)
(* opens a new branch when no branch still open matches.                   *)
(***************************************************************************)
OpenRuns == { branches[i].run : i \in 1..Len(branches) }

EmittedOf(run) == { i \in 1..Len(emitted) : emitted[i].run = run }

C8_Flushed ==
    \A e \in 1..Len(evicted) :
        /\ evicted[e].run \notin OpenRuns
        /\ Cardinality(EmittedOf(evicted[e].run)) = evicted[e].size

C8_Step ==
    (bpc = "loop" /\ pos' = pos + 1) =>
        LET c == input[pos + 1]
        IN  \A e \in 1..Len(evicted) :
              evicted[e].last \in Range(c.parent_hash) =>
                  /\ evicted[e].run \notin OpenRuns'
                  /\ EmittedOf(evicted[e].run)' = EmittedOf(evicted[e].run)
                  /\ (\A i \in 1..Len(branches) :
                          Last(branches[i].list).hash \notin Range(c.parent_hash)) =>
                        /\ branches' # <<>>
                        /\ Last(branches').list = <<AgeSlot(0), c>>
                        /\ Last(branches').run \notin OpenRuns
                        /\ \A f \in 1..Len(evicted) : Last(branches').run # evicted[f].run

C8_EvictedStaysOut == [] C8_Flushed /\ [][C8_Step]_vars

\* the commit just processed names the last commit of a branch evicted
\* earlier as its parent, and has opened a branch of its own
C8_Witness ==
    /\ bpc = "loop" /\ pos >= 1
    /\ \E e \in 1..Len(evicted) :
          /\ evicted[e].at < pos
          /\ evicted[e].last \in Range(input[pos].parent_hash)
    /\ ~added
    /\ branches # <<>> /\ Last(branches).list = <<AgeSlot(0), input[pos]>>

(***************************************************************************)
(* C15: nothing is lost and nothing is emitted twice.                      *)
(***************************************************************************)
\* how often a commit has been emitted
TimesEmitted(cm) == Cardinality({ i \in 1..Len(emitted) : emitted[i].item = cm })

\* how often a commit is buffered in the open branches
TimesBuffered(cm) ==
    Cardinality({ ik \in (1..Len(branches)) \X (1..(Len(input) + 1)) :
                    /\ ik[2] >= 2 /\ ik[2] <= Len(branches[ik[1]].list)
                    /\ branches[ik[1]].list[ik[2]] = cm })

\* C15: consumed to the end, iter_commits_consecutive has emitted every
\* input commit exactly once (its output is a permutation of its input);
\* before the end, every commit consumed so far is either buffered in one
\* open branch or emitted once, and no other commit is.
C15_OutputIsPermutation ==
    /\ bpc = "done" =>
          /\ Len(emitted) = Len(input)
          /\ \A n \in 1..Len(input) : TimesEmitted(input[n]) = 1
    /\ bpc = "loop" =>
          /\ \A n \in 1..pos : TimesEmitted(input[n]) + TimesBuffered(input[n]) = 1
          /\ \A n \in (pos + 1)..Len(input) :
                TimesEmitted(input[n]) + TimesBuffered(input[n]) = 0
    /\ \A i \in 1..Len(emitted) : emitted[i].item \in Range(input)

\* three commits: two emitted by an eviction, one by the final flush
C15_Witness ==
    /\ bpc = "done"
    /\ Len(input) = 3
    /\ Len(evicted) = 1 /\ evicted[1].size = 2
    /\ Len(branches) = 1
    /\ Len(emitted) = 3

(***************************************************************************)
(* C16: first match wins, in the order the branches were opened.           *)
(***************************************************************************)
\* the open branches whose last commit is a parent of cm
Candidates(cm) ==
    { i \in 1..Len(branches) : Last(branches[i].list).hash \in Range(cm.parent_hash) }

\* the runs that hold cm after the step: open branches and what the step emitted
RunsHolding(cm, bs, out) ==
    { bs[i].run : i \in { j \in 1..Len(bs) : cm \in Range(bs[j].list) } }
    \cup { out[i].run : i \in { j \in 1..Len(out) : out[j].item = cm } }

C16_Step ==
    (bpc = "loop" /\ pos' = pos + 1 /\ input[pos + 1].parent_hash # <<>>) =>
        LET c    == input[pos + 1]
            new  == SubSeq(emitted', Len(emitted) + 1, Len(emitted'))
            runs == RunsHolding(c, branches', new)
            cand == { branches[i].run : i \in Candidates(c) }
        IN  /\ Cardinality(runs) = 1
            /\ cand # {} => \E r \in cand : runs = {r} /\ \A q \in cand : r <= q
            /\ cand = {} => runs = {opened + 1}

\* the open branches are listed in the order they were opened
C16_OpeningOrder ==
    \A i, j \in 1..Len(branches) : i < j => branches[i].run < branches[j].run

\* C16: a commit with parents is appended to at most one open branch; when
\* the last commits of several open branches are among its parents, it is
\* appended to the one opened first, whatever the order of its parent_hash
\* list, the lengths of the branches and the branch extended last.
C16_FirstOpenedWins == [] C16_OpeningOrder /\ [][C16_Step]_vars

\* a merge of the tips of two open branches: the branch opened second is the
\* longer one and was extended last, its tip comes first in parent_hash, and
\* the merge commit is on the branch opened first
C16_Witness ==
    /\ pos = 4 /\ Len(input) = 4 /\ bpc = "loop"
    /\ input[3].parent_hash = <<CommitHash[2]>>
    /\ input[4].parent_hash = <<CommitHash[3], CommitHash[1]>>
    /\ Len(branches) = 2
    /\ branches[1].run = 1 /\ Last(branches[1].list) = input[4]
    /\ Last(branches[2].list) = input[3]

(***************************************************************************)
(* C17: the open branches stay within the budget.                          *)
(***************************************************************************)
\* the branches a step finds open and does not leave open
RunsClosedByStep == OpenRuns \ OpenRuns'

C17_WithinBudget ==
    (branch_length >= 1 /\ branch_age >= 0) =>
        \A i \in 1..Len(branches) :
            /\ Len(branches[i].list) - 1 <= branch_length
            /\ branches[i].list[1].age <= branch_age

\* a branch leaves the open set only in a step that emits all its commits and
\* the commit it may just have received, in that same step
C17_Step ==
    (bpc = "loop" /\ pos' = pos + 1) =>
        \A i \in 1..Len(branches) :
            branches[i].run \in RunsClosedByStep =>
                LET new  == SubSeq(emitted', Len(emitted) + 1, Len(emitted'))
                    mine == { k \in 1..Len(new) : new[k].run = branches[i].run }
                    aged == branches[i].list[1].age + 1
                    size == Cardinality(mine)
                IN  /\ size >= Len(branches[i].list) - 1
                    /\ \A n \in 2..Len(branches[i].list) :
                          \E k \in mine : new[k].item = branches[i].list[n]
                    /\ size > branch_length \/ aged > branch_age

\* C17: with branch_length >= 1 and branch_age >= 0, after each input commit
\* every open branch buffers at most branch_length commits and has an age of
\* at most branch_age; a branch that exceeds a bound is emitted and removed
\* from the open set in the step of the commit that made it exceed it.
C17_OpenBranchesBounded == [] C17_WithinBudget /\ [][C17_Step]_vars

\* one branch was evicted, and an open branch is exactly at both bounds
C17_Witness ==
    /\ bpc = "loop"
    /\ branch_length >= 1
    /\ evicted # <<>>
    /\ \E i \in 1..Len(branches) :
          /\ Len(branches[i].list) - 1 = branch_length
          /\ branches[i].list[1].age = branch_age

(***************************************************************************)
(* C18: the age counters.                                                  *)
(***************************************************************************)
\* the age, after the step, of the branch that is the i-th one before it
\* (-1 when the step does not leave it open)
AgeAfter(i) ==
    LET same == { j \in 1..Len(branches') : branches'[j].run = branches[i].run }
    IN  IF same = {} THEN -1 ELSE branches'[CHOOSE j \in same : TRUE].list[1].age

\* the i-th open branch is left open by the step and has received its commit
Receives(i) ==
    \E j \in 1..Len(branches') :
        /\ branches'[j].run = branches[i].run
        /\ Len(branches'[j].list) = Len(branches[i].list) + 1

ParentStep == bpc = "loop" /\ pos' = pos + 1 /\ input[pos + 1].parent_hash # <<>>

\* C18: in the step of a commit with parents, the age of every open branch
\* other than the one the commit is appended to goes up by exactly one,
\* whether or not a branch matched, and the age of the branch that receives
\* the commit is left as it was.
C18_ReceiverNotAged ==
    [][ ParentStep =>
          \A i \in 1..Len(branches) :
              AgeAfter(i) # -1 =>
                  IF Receives(i)
                  THEN AgeAfter(i) = branches[i].list[1].age
                  ELSE AgeAfter(i) = branches[i].list[1].age + 1 ]_vars

\* the age of every branch the step leaves open goes up by exactly one, the
\* branch that receives the commit included
C18_EveryBranchAged ==
    [][ ParentStep =>
          \A i \in 1..Len(branches) :
              AgeAfter(i) # -1 => AgeAfter(i) = branches[i].list[1].age + 1 ]_vars

\* every append ages the branch: a branch that holds n commits has an age of
\* at least n - 1
C18_AgeCountsParentSteps ==
    \A i \in 1..Len(branches) :
        Len(branches[i].list) - 2 <= branches[i].list[1].age

(***************************************************************************)
(* C19: the final flush.                                                   *)
(***************************************************************************)
\* the number of commits buffered in the first n open branches
RECURSIVE BufferedBefore(_)
BufferedBefore(n) ==
    IF n = 0 THEN 0 ELSE BufferedBefore(n - 1) + Len(branches[n].list) - 1

C19_Step ==
    /\ (bpc = "loop" /\ bpc' = "done") =>
          LET new == SubSeq(emitted', Len(emitted) + 1, Len(emitted'))
          IN  /\ pos = Len(input)
              /\ Len(new) = BufferedBefore(Len(branches))
              /\ \A i \in 1..Len(branches) : \A k \in 2..Len(branches[i].list) :
                    /\ new[BufferedBefore(i - 1) + k - 1].item = branches[i].list[k]
                    /\ new[BufferedBefore(i - 1) + k - 1].run = branches[i].run
    /\ bpc = "done" => emitted' = emitted /\ bpc' = "done"

\* C19: when the input is exhausted, every branch still open is flushed
\* whole, the branches in the order they were opened and the commits of a
\* branch in the order they were appended; nothing is emitted afterwards.
C19_FinalFlushInOrder == [] C16_OpeningOrder /\ [][C19_Step]_vars

\* two branches were open at the end, the first with two commits; the
\* commit appended last to the first branch is emitted before the second
\* branch's commit, which is older
C19_Witness ==
    /\ bpc = "done"
    /\ Len(input) = 3 /\ evicted = <<>>
    /\ Len(branches) = 2
    /\ Len(branches[1].list) = 3
    /\ EmittedCommits = <<input[1], input[3], input[2]>>

(***************************************************************************)
(* C21: parents before children.                                           *)
(***************************************************************************)
\* every commit of the sequence comes after all of its parents that are in it
ParentsFirst(q) ==
    \A i, j \in 1..Len(q) : q[j].hash \in Range(q[i].parent_hash) => j < i

\* C21: when every input commit comes after all its parents, so does every
\* commit of the output of iter_commits_consecutive, for each of its parents
\* that is in the output, the second and later parents of a merge included.
C21_ParentsBeforeChildren ==
    (bpc = "done" /\ ParentsFirst(input)) => ParentsFirst(EmittedCommits)

\* every commit is emitted after the parent whose branch it was appended to
C21_AfterTheParentOfItsRun ==
    \A i \in 2..Len(emitted) :
        emitted[i - 1].run = emitted[i].run =>
            emitted[i - 1].item.hash \in Range(emitted[i].item.parent_hash)

\* inputs without merge commits, of up to MaxCommits commits, come out with
\* the parents first
C21_NoMergeInputs ==
    (/\ bpc = "done"
     /\ Len(input) <= MaxCommits
     /\ \A n \in 1..Len(input) : Len(input[n].parent_hash) <= 1)
        => ParentsFirst(EmittedCommits)

(***************************************************************************)
(* Specification of the Files of one archive image: iter_files is pulled   *)
(* and the contents of the Files handed out are accessed, in any order.    *)
(***************************************************************************)
FileSpecInit == ParseIdle /\ BranchIdle /\ FileInit /\ CountIdle /\ HashIdle /\ TextIdle

FileNext == OpenArchive \/ NextFile \/ EndFiles \/ \E f \in 1..MaxEntries : Content(f)

FileSpec == FileSpecInit /\ [][FileNext]_vars

(***************************************************************************)
(* C10: the content of a File (also an empty one) is decoded from the      *)
(* shared buffer at most once, on the first access and not before; every   *)
(* later access returns the cached object itself, without reading or       *)
(* seeking the buffer again.                                               *)
(***************************************************************************)
C10_DecodedOnce ==
    \A f \in 1..Len(files) :
        /\ reads[f] <= 1
        /\ results[f] = <<>> => (reads[f] = 0 /\ files[f].data = None)
        /\ results[f] # <<>> => (reads[f] = 1 /\ files[f].data # None)
        /\ \A i \in 1..Len(results[f]) : results[f][i] = files[f].data

C10_LaterAccessLeavesBuffer ==
    \A f \in 1..Len(files) :
        (results[f] # <<>> /\ results'[f] # results[f]) => buffer' = buffer

C10_ContentCachedOnFirstAccess == [] C10_DecodedOnce /\ [][C10_LaterAccessLeavesBuffer]_vars

\* an empty File read twice: one decode, the same object both times
C10_Witness ==
    \E f \in 1..Len(files) :
        /\ files[f].tarinfo.size = 0
        /\ files[f].tarinfo.sparse.isnone
        /\ Len(results[f]) = 2
        /\ reads[f] = 1
        /\ results[f][1] = results[f][2]
        /\ results[f][1].bytes = <<>>
        /\ results[f][1].id # 0

(***************************************************************************)
(* C11: sparse and contiguous entries.                                     *)
(***************************************************************************)
\* the bytes [o, o + l) of the buffer, as far as the buffer goes
BufferRange(o, l) ==
    LET data == buffer.data
        n    == IF o >= Len(data) THEN 0 ELSE Min(l, Len(data) - o)
    IN  [i \in 1..n |-> data[o + i]]

\* the ranges of the extents, concatenated in extent order
RECURSIVE ExtentBytes(_)
ExtentBytes(extents) ==
    IF extents = <<>> THEN <<>>
    ELSE BufferRange(extents[1][1], extents[1][2]) \o ExtentBytes(Tail(extents))

\* the `size` bytes from the data offset of the entry
LinearRun(ti) == BufferRange(ti.offset_data, ti.size)

\* C11: the content of a File of a sparse entry is the concatenation, in
\* extent order, of the buffer bytes [o, o + l) of its extents, and it is not
\* the linear run of `size` bytes from the data offset where the two differ;
\* the content of a File of a contiguous entry is that linear run.
C11_ContentFollowsExtents ==
    \A f \in 1..Len(files) : \A k \in 1..Len(results[f]) :
        LET ti  == files[f].tarinfo
            got == results[f][k].bytes
        IN  IF ti.sparse.isnone
            THEN got = LinearRun(ti)
            ELSE /\ got = ExtentBytes(ti.sparse.extents)
                 /\ (ExtentBytes(ti.sparse.extents) # LinearRun(ti) => got # LinearRun(ti))

\* a sparse File with two extents, whose ranges differ from its linear run,
\* has been read, and so has a contiguous File with data
C11_Witness ==
    /\ \E f \in 1..Len(files) :
         /\ ~files[f].tarinfo.sparse.isnone
         /\ Len(files[f].tarinfo.sparse.extents) = 2
         /\ Len(results[f]) > 0
         /\ results[f][1].bytes # LinearRun(files[f].tarinfo)
         /\ results[f][1].bytes # <<>>
    /\ \E f \in 1..Len(files) :
         /\ files[f].tarinfo.sparse.isnone
         /\ Len(results[f]) > 0
         /\ results[f][1].bytes # <<>>

(***************************************************************************)
(* C22: the Files of one image share the buffer and its read position.     *)
(***************************************************************************)
\* the position in the archive of the entry the f-th File was made of
RECURSIVE EntryOf(_, _)
EntryOf(f, n) ==
    IF archive[n].isfile
    THEN IF f = 1 THEN n ELSE EntryOf(f - 1, n + 1)
    ELSE EntryOf(f, n + 1)

\* the bytes of the entry of the f-th File: the data of a contiguous entry,
\* the ranges its extents name for a sparse one
OwnBytes(f) ==
    LET e == archive[EntryOf(f, 1)]
    IN  IF e.sparse.isnone THEN e.data ELSE ExtentBytes(e.sparse.extents)

\* C22: whatever the order in which the Files of one archive image are
\* pulled from iter_files and their contents are first accessed, the
\* content of each File is the bytes of its own entry; the read position
\* that an earlier read left in the shared buffer does not show.
C22_ContentIsOwnEntry ==
    \A f \in 1..Len(files) :
        /\ files[f].tarinfo.name = archive[EntryOf(f, 1)].name
        /\ \A k \in 1..Len(results[f]) : results[f][k].bytes = OwnBytes(f)

\* two contiguous Files with different data: the second was read first, and
\* the first after it, from the position the other read left behind
C22_Witness ==
    /\ Len(files) = 2
    /\ files[1].tarinfo.sparse.isnone /\ files[2].tarinfo.sparse.isnone
    /\ results[1] # <<>> /\ results[2] # <<>>
    /\ results[2][1].id = 1 /\ results[1][1].id = 2
    /\ results[1][1].bytes # <<>> /\ results[2][1].bytes # <<>>
    /\ results[1][1].bytes # results[2][1].bytes
    /\ buffer.pos = files[1].tarinfo.offset_data + files[1].tarinfo.size

(***************************************************************************)
(* C12: a read failure of the archive image.                               *)
(***************************************************************************)
ReadFailed == fpc \in {"done", "raised"} /\ Unreadable(buffer)

\* the entries of the image that are regular files
RegularNames == { archive[n].name : n \in { m \in 1..Len(archive) : archive[m].isfile } }

C12_WitnessSilent ==
    /\ ReadFailed
    /\ ~filenames.isnone /\ filenames.value = <<>>
    /\ error_response # <<>>
    /\ fpc = "done"

\* an image with a directory has been gone through to its end
C12_WitnessDirectory ==
    /\ fpc = "done"
    /\ \E n \in 1..Len(archive) : ~archive[n].isfile
    /\ files # <<>>

(***************************************************************************)
(* Specification of num_commits: commits are made, the count is asked.     *)
(***************************************************************************)
CountSpecInit == ParseIdle /\ BranchIdle /\ FileIdle /\ CountInit /\ HashIdle /\ TextIdle

CountNext == GitCommit \/ NumCommits

CountSpec == CountSpecInit /\ [][CountNext]_vars

\* C13: every num_commits call returns the number of commits the repository
\* has at the time of the call for the filenames and the `all` flag of that
\* call.
C13_CountIsCurrent ==
    ncalls > 0 => call.returned = int(rev_list_count(call.at, call.filenames, call.all))

\* the first call on a Giterator returns the count for its arguments
C13_FirstCallIsCurrent ==
    ncalls = 1 => call.returned = int(rev_list_count(call.at, call.filenames, call.all))

\* every call returns what the first call returned
C13_LaterCallsRepeat ==
    [][ncalls > 0 /\ ncalls' > ncalls => call'.returned = call.returned]_vars

(***************************************************************************)
(* Specification of iter_commit_hashes: a consumer that pulls, or closes.  *)
(***************************************************************************)
HashSpecInit == ParseIdle /\ BranchIdle /\ FileIdle /\ CountIdle /\ HashInit /\ TextIdle

HashNext == HashStart \/ HashClose

HashSpec == HashSpecInit /\ [][HashNext]_vars

\* the records git rev-list reports, read off its lines
HashRecords ==
    [ n \in 1..(Len(hlines) \div 2) |->
        LET head == split(hlines[2 * n - 1])
            body == split(hlines[2 * n])
        IN  [ x \in {"hash", "children_hash", "date", "tree_hash", "parent_hash"} |->
                CASE x = "hash"          -> <<head[2]>>
                  [] x = "children_hash" -> SubSeq(head, 3, Len(head))
                  [] x = "date"          -> parse_datetime(<<body[1]>>)
                  [] x = "tree_hash"     -> <<body[2]>>
                  [] x = "parent_hash"   -> SubSeq(body, 3, Len(body)) ] ]

\* the slice [k, k + m) of the records (all from k on when m <= 0)
HashSlice(k, m) ==
    LET all_  == HashRecords
        first == Min(k, Len(all_)) + 1
        last  == IF m <= 0 THEN Len(all_) ELSE Min(k + m, Len(all_))
    IN  SubSeq(all_, first, last)

\* C14: consumed to its end, iter_commit_hashes(offset=k, count=m) has
\* yielded the slice [k, k + m) of the records of the repository (all
\* records from k on when m <= 0), each with hash, children_hash, date,
\* tree_hash and parent_hash, and has raised nothing.
C14_HashesAreSlice ==
    hpc \in {"done", "raised"} =>
        /\ herror = NoError
        /\ hyielded = HashSlice(hoffset, hcount)

\* the loop of iter_commit_hashes by itself yields the slice [k, k + m)
C14_LoopIsSlice ==
    hashes_loop(hlines, hoffset, hcount, EmptyDict, 0) = HashSlice(hoffset, hcount)

\* with offset 0 the loop by itself yields the first m records (all when m <= 0)
C14_LoopIsPrefix ==
    hashes_loop(hlines, hoffset, hcount, EmptyDict, 0) = HashSlice(0, IF hcount <= 0 THEN 0 ELSE hoffset + hcount)

(***************************************************************************)
(* C23: author and committer.                                              *)
(***************************************************************************)
\* the commit of the repository that a yielded Commit stands for
RepoCommitOf(y) ==
    RepoCommit(CHOOSE n \in 1..Len(HashTok) : <<HashTok[n]>> = y["hash"], 1)

AuthorFieldsOK(y) ==
    LET rc == RepoCommitOf(y)
    IN  /\ y["author"] = Clean(rc.an)
        /\ y["author_email"] = Clean(rc.ae)
        /\ y["author_date"] = parse_datetime(Clean(rc.aI))

CommitterFieldsOK(y) ==
    LET rc == RepoCommitOf(y)
    IN  /\ y["committer"] = Clean(rc.cn)
        /\ y["committer_email"] = Clean(rc.ce)
        /\ y["committer_date"] = parse_datetime(Clean(rc.cI))

\* C23: every Commit carries as committer, committer_email and
\* committer_date the committer name, e-mail and date of its commit, and as
\* author, author_email and author_date the author's; the two differ when
\* the committer is not the author.
C23_CommitterAndAuthor ==
    \A i \in 1..Len(yielded) :
        /\ AuthorFieldsOK(yielded[i])
        /\ CommitterFieldsOK(yielded[i])
        /\ LET rc == RepoCommitOf(yielded[i])
           IN  rc.cn # rc.an => yielded[i]["committer"] # yielded[i]["author"]

\* the author fields carry the author values
C23_AuthorFields ==
    \A i \in 1..Len(yielded) : AuthorFieldsOK(yielded[i])

\* the committer fields carry the author values too
C23_CommitterIsAuthor ==
    \A i \in 1..Len(yielded) :
        /\ yielded[i]["committer"] = yielded[i]["author"]
        /\ yielded[i]["committer_email"] = yielded[i]["author_email"]
        /\ yielded[i]["committer_date"] = yielded[i]["author_date"]

(***************************************************************************)
(* Specification of the log parser over streams that break the protocol.   *)
(***************************************************************************)
RawSpecInit == RawInit /\ BranchIdle /\ FileIdle /\ CountIdle /\ HashIdle /\ TextIdle

RawSpec == RawSpecInit /\ [][Next]_vars

\* the keys of a fully populated record
RecordKeys == { LOG_INFOS[j][2] : j \in 1..Len(LOG_INFOS) } \cup {"message"}

FullyPopulated(y) == RecordKeys \subseteq DOMAIN y

\* the chunk is a frame: it starts with DELIMITER1 and has its fields, its
\* message and DELIMITER2
IsFrame(c) == c.head = "delimiter" /\ c.keep >= HeadLen(c)

\* the frame as far as it was written
Written(c) == [c EXCEPT !.changes = SubSeq(c.changes, 1, c.keep - HeadLen(c))]

\* the record is the one of a frame of the stream
FromFrame(y) ==
    \E n \in 1..Len(frames) : IsFrame(frames[n]) /\ y = ExpectedCommit(Written(frames[n]))

\* C20: for every line stream (with lines before the first DELIMITER1, cut
\* in the middle of a frame, or with DELIMITER1 before a frame is complete)
\* every record iter_commits yields is fully populated (11 fields and the
\* message) and is the record of one frame of the stream; an empty pending
\* record is not yielded.
C20_OnlyCompleteFramesYielded ==
    \A i \in 1..Len(yielded) :
        /\ yielded[i] # EmptyDict
        /\ FullyPopulated(yielded[i])
        /\ FromFrame(yielded[i])

\* every fully populated record yielded is the record of a frame
C20_FullRecordsComeFromFrames ==
    \A i \in 1..Len(yielded) : FullyPopulated(yielded[i]) => FromFrame(yielded[i])

\* every record yielded is fully populated
C20_YieldedArePopulated ==
    \A i \in 1..Len(yielded) : FullyPopulated(yielded[i])

\* no empty record is yielded
C20_EmptyIsDiscarded ==
    \A i \in 1..Len(yielded) : yielded[i] # EmptyDict

\* on the streams that are made of frames only, every record is a frame's
C20_FramesOnly ==
    (\A n \in 1..Len(frames) : IsFrame(frames[n])) =>
        \A i \in 1..Len(yielded) : FullyPopulated(yielded[i]) /\ FromFrame(yielded[i])

(***************************************************************************)
(* Specification of File.text: the text of one File is asked for.          *)
(***************************************************************************)
TextSpecInit == ParseIdle /\ BranchIdle /\ FileIdle /\ CountIdle /\ HashIdle /\ TextInit

TextNext == Text

TextSpec == TextSpecInit /\ [][TextNext]_vars

\* what the caller asks for: the given values, the decoder's defaults for
\* the omitted ones
AskedEncoding == IF StrTruthy(tcall.encoding) THEN tcall.encoding ELSE "utf-8"
AskedErrors   == IF StrTruthy(tcall.errors) THEN tcall.errors ELSE "strict"

\* C24: File.text(encoding=E, errors=R) hands the decoder the values E and
\* R of the caller, and the decoder's defaults for whichever is omitted, and
\* returns the content decoded with them.
C24_TextUsesArguments ==
    tncalls > 0 =>
        /\ tcall.got.encoding = AskedEncoding
        /\ tcall.got.errors = AskedErrors
        /\ tcall.got = bytes_decode(tcontent, <<AskedEncoding, AskedErrors>>)

\* without arguments the content is decoded with the decoder's defaults
C24_NoArguments ==
    (tncalls > 0 /\ ~StrTruthy(tcall.encoding) /\ ~StrTruthy(tcall.errors)) =>
        tcall.got = bytes_decode(tcontent, <<"utf-8", "strict">>)

\* with an argument the decoder is handed the name of the parameter as the
\* encoding, and raises LookupError
C24_ArgumentsAreNames ==
    (tncalls > 0 /\ (StrTruthy(tcall.encoding) \/ StrTruthy(tcall.errors))) =>
        /\ tcall.got.encoding \in {"encoding", "errors"}
        /\ tcall.got.kind = "LookupError"

====
